---- MODULE Spec2Model ----
(***************************************************************************)
(* ANS-104 data items and bundles of pyarweave (ar/bundle.py), with the    *)
(* signer registry of ar/utils/ans104_signers.py.                          *)
(*                                                                         *)
(* Byte strings are sequences over 0..255.  Base64url strings are          *)
(* sequences of sextets (0..63).  Python's None is the empty option <<>>,  *)
(* a present value x is <<x>>.  A call that raises yields a record whose   *)
(* exc field names the exception; exc = "" is a normal return.             *)
(***************************************************************************)
EXTENDS Integers, Sequences, FiniteSets, TLC

VARIABLES item, wire, parsed, json, ret, bundle, bheader, bwire, bparsed,
          taglist, encoded, decoded, bpos,
          block, blockwire, blockjson, blockparsed,
          wallet, peer, uploader, requests

vars == <<item, wire, parsed, json, ret, bundle, bheader, bwire, bparsed,
          taglist, encoded, decoded, bpos,
          block, blockwire, blockjson, blockparsed,
          wallet, peer, uploader, requests>>

\* the variables of one part of the program
itemVars == <<item, wire, parsed, json>>

bundleVars == <<bundle, bheader, bwire, bparsed, bpos>>

tagVars == <<taglist, encoded, decoded>>

blockVars == <<block, blockwire, blockjson, blockparsed>>

walletVars == <<wallet, peer>>

uploaderVars == <<uploader, requests>>

(***************************************************************************)
(* Bounds of the model                                                     *)
(***************************************************************************)
\* number of private keys to sign with
MaxKey == 2
\* payload length of the longer payload
MaxData == 2
\* length of an anchor shorter than 32 bytes
ShortAnchor == 1
\* number of data items in a bundle
MaxItems == 3

\* the longest tag list drawn from the short tags
MaxCodecTags == 2

\* the largest value written over a byte of a received header
MaxByteValue == 7

\* the longest list of transactions of a block
MaxTxs == 2

\* the number of get_last_transaction_id calls followed
MaxCalls == 3

\* the largest number of chunks of a transaction
MaxChunks == 3

\* requests after which no further upload_chunk call is followed
MaxRequests == 5

\* errors counted after which no further upload_chunk call is followed
MaxErrors == 3

\* the length of raw_tags up to which assignments to a header are followed
MaxRawTags == 10

None == <<>>

Some(x) == <<x>>

(***************************************************************************)
(* Limits DataItem.verify enforces                                         *)
(***************************************************************************)
MaxTags == 128

MaxTagName == 1024

MaxTagValue == 3072

MaxAnchor == 32

(***************************************************************************)
(* Byte-string helpers                                                     *)
(***************************************************************************)
Fill(n, b) == [i \in 1..n |-> b]

Take(s, n) == SubSeq(s, 1, n)

Drop(s, n) == SubSeq(s, n + 1, Len(s))

RECURSIVE ConcatRange(_, _, _)
ConcatRange(ss, lo, hi) ==
    IF lo > hi THEN <<>>
    ELSE IF lo = hi THEN ss[lo]
    ELSE LET mid == (lo + hi) \div 2
         IN ConcatRange(ss, lo, mid) \o ConcatRange(ss, mid + 1, hi)

\* b''.join(ss)
Concat(ss) == ConcatRange(ss, 1, Len(ss))

RECURSIVE SumRange(_, _, _)
\* sum of f[lo..hi], computed by halving
SumRange(f, lo, hi) ==
    IF lo > hi THEN 0
    ELSE IF lo = hi THEN f[lo]
    ELSE LET mid == (lo + hi) \div 2
         IN SumRange(f, lo, mid) + SumRange(f, mid + 1, hi)

RECURSIVE ToLittle(_, _)
\* int.to_bytes(w, 'little') and struct '<H' / '<Q'
ToLittle(n, w) == IF w = 0 THEN <<>> ELSE <<n % 256>> \o ToLittle(n \div 256, w - 1)

RECURSIVE FromLittle(_)
\* int.from_bytes(b, 'little')
FromLittle(b) == IF b = <<>> THEN 0 ELSE b[1] + 256 * FromLittle(Tail(b))

RECURSIVE AsciiDigits(_)
AsciiDigits(n) == IF n < 10 THEN <<48 + n>> ELSE AsciiDigits(n \div 10) \o <<48 + (n % 10)>>

\* struct.pack('<n>s', b): pads with NUL bytes or truncates to n bytes
PackS(n, b) == IF Len(b) >= n THEN Take(b, n) ELSE b \o Fill(n - Len(b), 0)

(***************************************************************************)
(* Library primitives the repository calls: SHA-256 and SHA-384 of         *)
(* Crypto.Hash, RSA-PSS of Crypto.Signature, modelled as deterministic     *)
(* functions of their whole input (a position-weighted checksum expanded   *)
(* to the digest length).                                                  *)
(***************************************************************************)
Checksum(b) ==
    (SumRange([i \in 1..Len(b) |-> (b[i] + 1) * ((i % 251) + 1)], 1, Len(b))
        + 7 * Len(b)) % 65521

Digest(n, b) ==
    LET c == Checksum(b)
    IN [i \in 1..n |-> IF i = 1 THEN c % 256
                       ELSE IF i = 2 THEN c \div 256
                       ELSE (c + 3 * i) % 256]

SHA256(b) == Digest(32, b)

SHA384(b) == Digest(48, b)

(***************************************************************************)
(* ar.utils: URL-safe base64 without padding (spec 4.A), tags              *)
(***************************************************************************)
b64enc(b) ==
    LET n == Len(b)
        at(i) == IF i <= n THEN b[i] ELSE 0
    IN [j \in 1..((4 * n + 2) \div 3) |->
          LET p == (j - 1) * 6
              idx == (p \div 8) + 1
              off == p % 8
              w == at(idx) * 256 + at(idx + 1)
          IN (w \div (2 ^ (10 - off))) % 64]

b64dec(s) ==
    LET m == Len(s)
        at(i) == IF i <= m THEN s[i] ELSE 0
    IN [k \in 1..((6 * m) \div 8) |->
          LET p == (k - 1) * 8
              idx == (p \div 6) + 1
              off == p % 6
              w == at(idx) * 64 + at(idx + 1)
          IN (w \div (2 ^ (4 - off))) % 256]

\* an argument that is either bytes or a base64url string
ArgBytes(b) == [k |-> "bytes", v |-> b]

ArgStr(s) == [k |-> "str", v |-> s]

b64enc_if_not_str(a) == IF a.k = "str" THEN a.v ELSE b64enc(a.v)

b64dec_if_not_bytes(a) == IF a.k = "bytes" THEN a.v ELSE b64dec(a.v)

create_tag(name, value) == [name |-> name, value |-> value]

encode_tag(tag) == [name |-> b64enc(tag.name), value |-> b64enc(tag.value)]

decode_tag(tag) == [name |-> b64dec(tag.name), value |-> b64dec(tag.value)]

(***************************************************************************)
(* ar.utils.deep_hash (spec 4.B).  A node is Blob(bytes) or List(nodes).   *)
(***************************************************************************)
Blob(b) == [t |-> "blob", v |-> b]

List(l) == [t |-> "list", v |-> l]

Ascii_blob == <<98, 108, 111, 98>>

Ascii_list == <<108, 105, 115, 116>>

RECURSIVE deep_hash(_)
RECURSIVE deep_hash_chunks(_, _, _)
deep_hash_chunks(l, i, acc) ==
    IF i > Len(l) THEN acc
    ELSE deep_hash_chunks(l, i + 1, SHA384(acc \o deep_hash(l[i])))

deep_hash(node) ==
    IF node.t = "blob"
    THEN SHA384(Ascii_blob \o AsciiDigits(Len(node.v)) \o node.v)
    ELSE deep_hash_chunks(node.v, 1, SHA384(Ascii_list \o AsciiDigits(Len(node.v))))

(***************************************************************************)
(* Signer registry (ar/utils/ans104_signers.py)                            *)
(***************************************************************************)
BY_TYPE == {1, 2, 3, 4}

DEFAULT_SIGNER == 1

owner_length(type) ==
    CASE type = 1 -> 512
      [] type = 2 -> 32
      [] type = 3 -> 65
      [] type = 4 -> 32

signature_length(type) ==
    CASE type = 1 -> 512
      [] type = 2 -> 64
      [] type = 3 -> 65
      [] type = 4 -> 64

\* only Arweave (type 1) overrides the methods of Signer; the base class
\* raises NotImplementedError
SignerImplemented(type) == type = 1

Keys == 1..MaxKey

\* Arweave.raw_owner: long_to_bytes(key.n), the 4096-bit modulus of key k
Arweave_raw_owner(k) ==
    [i \in 1..512 |-> IF i = 1 THEN 128 + k ELSE IF i = 512 THEN 2 * k + 1 ELSE k]

\* Arweave.public_key: RSA.construct((n, 65537), consistency_check = True)
\* raises ValueError for an even modulus and for a modulus not above 65537
Arweave_public_key(raw_owner) ==
    LET n == Len(raw_owner)
        small == /\ \A i \in 1..(n - 3) : raw_owner[i] = 0
                 /\ (IF n >= 3 THEN raw_owner[n - 2] * 65536 ELSE 0)
                    + (IF n >= 2 THEN raw_owner[n - 1] * 256 ELSE 0)
                    + (IF n >= 1 THEN raw_owner[n] ELSE 0) <= 65537
    IN IF n = 0 \/ raw_owner[n] % 2 = 0 \/ small
       THEN [exc |-> "ValueError", n |-> <<>>]
       ELSE [exc |-> "", n |-> raw_owner]

\* the signature RSA-PSS yields for a modulus and a message
PssSignature(modulus, databytes) ==
    LET c == Checksum(SHA256(databytes) \o modulus)
    IN [i \in 1..512 |-> IF i = 1 THEN c % 256
                         ELSE IF i = 2 THEN c \div 256
                         ELSE (c + 5 * i) % 256]

\* Arweave.sign
Arweave_sign(k, databytes) == PssSignature(Arweave_raw_owner(k), databytes)

\* Arweave.verify: ValueError and TypeError of the verifier become False
Arweave_verify(public_key, raw_data, raw_signature) ==
    raw_signature = PssSignature(public_key.n, raw_data)

(***************************************************************************)
(* Tag codec (ANS104DataItemHeader.tagstobytes / tagsfromstream)           *)
(***************************************************************************)
RECURSIVE Varint(_)
Varint(zigzag) ==
    IF zigzag \div 128 # 0
    THEN <<(zigzag % 128) + 128>> \o Varint(zigzag \div 128)
    ELSE <<zigzag % 128>>

\* an encoder that leaves out the zigzag step
avrolongenc_plain(num) == Varint(num)

avrolongenc(num) ==
    LET zigzag == 2 * num
    IN Varint(IF zigzag < 0 THEN (-zigzag) - 1 ELSE zigzag)

avrobytesenc(data) == avrolongenc(Len(data)) \o data

tagstobytes(tags) ==
    avrolongenc(Len(tags))
    \o Concat([i \in 1..Len(tags) |->
                 avrobytesenc(tags[i].name) \o avrobytesenc(tags[i].value)])
    \o (IF Len(tags) # 0 THEN <<0>> ELSE <<>>)

RECURSIVE VarintDec(_, _, _, _)
\* the loop of avrolongdec: stream.read(1)[0] raises IndexError at the end
VarintDec(buf, pos, zigzag, mult) ==
    IF pos >= Len(buf) THEN [exc |-> "IndexError", val |-> 0, pos |-> pos]
    ELSE IF buf[pos + 1] >= 128
    THEN VarintDec(buf, pos + 1, zigzag + (buf[pos + 1] % 128) * mult, mult * 128)
    ELSE [exc |-> "", val |-> zigzag + (buf[pos + 1] % 128) * mult, pos |-> pos + 1]

\* the end of avrolongdec: the sign is in the ones place of r.val
ZigzagDec(r) ==
    IF r.exc # "" THEN r
    ELSE [r EXCEPT !.val = IF r.val % 2 = 1 THEN -((r.val + 1) \div 2) ELSE r.val \div 2]

avrolongdec(buf, pos) == ZigzagDec(VarintDec(buf, pos, 0, 1))

\* avrobytesdec after count = avrolongdec(stream)
ReadCounted(buf, count) ==
    IF count.exc # "" THEN [exc |-> count.exc, val |-> <<>>, pos |-> count.pos]
    ELSE IF count.val < 0 \/ count.pos + count.val > Len(buf)
    THEN [exc |-> "AssertionError", val |-> <<>>, pos |-> count.pos]
    ELSE [exc |-> "", val |-> SubSeq(buf, count.pos + 1, count.pos + count.val),
          pos |-> count.pos + count.val]

avrobytesdec(buf, pos) == ReadCounted(buf, avrolongdec(buf, pos))

\* tags.append(create_tag(name, value, True))
MakeTag(name, value) ==
    IF value.exc # "" THEN [exc |-> value.exc, tags |-> <<>>, pos |-> value.pos]
    ELSE [exc |-> "", tags |-> <<create_tag(name.val, value.val)>>, pos |-> value.pos]

\* value = avrobytesdec(stream), after the name was read
ReadTagValue(buf, name) ==
    IF name.exc # "" THEN [exc |-> name.exc, tags |-> <<>>, pos |-> name.pos]
    ELSE MakeTag(name, avrobytesdec(buf, name.pos))

\* one pass of the loop body: name = avrobytesdec(stream), then the value
ReadTag(buf, pos) == ReadTagValue(buf, avrobytesdec(buf, pos))

JoinTags(left, right) ==
    [exc |-> right.exc, tags |-> left.tags \o right.tags, pos |-> right.pos]

RECURSIVE ReadTags(_, _, _)
\* the later passes of the loop, from where the earlier ones stopped
ReadTagsRight(buf, block_items, left) ==
    IF left.exc # "" THEN left
    ELSE JoinTags(left, ReadTags(buf, left.pos, block_items))

\* for block_idx in range(block_items): the first half of the passes, then
\* the second half
ReadTags(buf, pos, block_items) ==
    IF block_items = 0 THEN [exc |-> "", tags |-> <<>>, pos |-> pos]
    ELSE IF block_items = 1 THEN ReadTag(buf, pos)
    ELSE ReadTagsRight(buf, block_items - (block_items \div 2),
                       ReadTags(buf, pos, block_items \div 2))

ReadBlockItems(buf, pos, block_items, tags) ==
    JoinTags([exc |-> "", tags |-> tags, pos |-> pos], ReadTags(buf, pos, block_items))

RECURSIVE ReadBlocks(_, _, _)
\* back to the head of the while loop after a block
NextBlock(buf, r) == IF r.exc # "" THEN r ELSE ReadBlocks(buf, r.pos, r.tags)

\* a negative count: block_bytes = avrolongdec(stream) is read and not used
ReadSizedBlock(buf, tags, block_items, block_bytes) ==
    IF block_bytes.exc # ""
    THEN [exc |-> block_bytes.exc, tags |-> tags, pos |-> block_bytes.pos]
    ELSE NextBlock(buf, ReadBlockItems(buf, block_bytes.pos, block_items, tags))

\* the body of the while loop after block_items = avrolongdec(stream)
ReadBlock(buf, tags, block_items) ==
    IF block_items.exc # ""
    THEN [exc |-> block_items.exc, tags |-> tags, pos |-> block_items.pos]
    ELSE IF block_items.val = 0 THEN [exc |-> "", tags |-> tags, pos |-> block_items.pos]
    ELSE IF block_items.val < 0
    THEN ReadSizedBlock(buf, tags, -block_items.val, avrolongdec(buf, block_items.pos))
    ELSE NextBlock(buf, ReadBlockItems(buf, block_items.pos, block_items.val, tags))

\* while True: block_items = avrolongdec(stream) ...
ReadBlocks(buf, pos, tags) == ReadBlock(buf, tags, avrolongdec(buf, pos))

\* tagsfromstream on io.BytesIO(buf): the tags and the stream position
tagsfromstream(buf) == ReadBlocks(buf, 0, <<>>)

(***************************************************************************)
(* io.BytesIO: read(n) returns what is left when fewer than n bytes        *)
(* remain; a negative n reads to the end                                   *)
(***************************************************************************)
StreamEnd(buf, pos, n) ==
    IF n < 0 \/ pos + n > Len(buf) THEN Len(buf) ELSE pos + n

StreamRead(buf, pos, n) == SubSeq(buf, pos + 1, StreamEnd(buf, pos, n))

(***************************************************************************)
(* ANS104DataItemHeader                                                    *)
(***************************************************************************)
\* the tags property
Header_tags(h) == tagsfromstream(h.raw_tags)

\* stream.read() after the tags were decoded
ExtraAfter(raw_tags, r) ==
    IF r.exc # "" THEN [exc |-> r.exc, val |-> <<>>]
    ELSE [exc |-> "", val |-> Drop(raw_tags, r.pos)]

\* the extra_tags_data property: what follows the decoded tags
Header_extra_tags_data(h) == ExtraAfter(h.raw_tags, tagsfromstream(h.raw_tags))

\* the assignment without the residual bytes
SetRawTags_bare(h, tags, extra) ==
    IF extra.exc # "" THEN [exc |-> extra.exc, h |-> h]
    ELSE [exc |-> "", h |-> [h EXCEPT !.raw_tags = tagstobytes(tags)]]

\* self.raw_tags = self.tagstobytes(tags) + self.extra_tags_data
SetRawTags(h, tags, extra) ==
    IF extra.exc # "" THEN [exc |-> extra.exc, h |-> h]
    ELSE [exc |-> "", h |-> [h EXCEPT !.raw_tags = tagstobytes(tags) \o extra.val]]

\* the tags setter
Header_set_tags(h, tags) == SetRawTags(h, tags, Header_extra_tags_data(h))

\* b[-n:]: the last n bytes, and all of b when n is 0
LastBytes(b, n) == IF n = 0 THEN b ELSE Drop(b, Len(b) - n)

\* self.raw_tags = self.raw_tags[-len(self.extra_tags_data):] + extra_tags_data,
\* extra being what the extra_tags_data property returned or raised
SetExtraTagsData(h, extra, extra_tags_data) ==
    IF extra.exc # "" THEN [exc |-> extra.exc, h |-> h]
    ELSE [exc |-> "",
          h |-> [h EXCEPT !.raw_tags = LastBytes(h.raw_tags, Len(extra.val))
                                         \o extra_tags_data]]

\* the extra_tags_data setter
Header_set_extra_tags_data(h, extra_tags_data) ==
    SetExtraTagsData(h, Header_extra_tags_data(h), extra_tags_data)

\* b64enc_if_not_str(x) if x else None
OptionalB64(a) == IF a.v # <<>> THEN Some(b64enc_if_not_str(a)) ELSE None

\* the end of __init__ for a tag list: self.raw_tags = b'\0'; self.tags = tags
InitTags(tags, h) == IF tags.k = "bytes" THEN h ELSE Header_set_tags(h, tags.v).h

\* __init__; tags is [k |-> "bytes" or "list", v |-> ...], target and anchor
\* are options of a bytes-or-str argument, random is what get_random_bytes(32)
\* returns when anchor is None
Header_init(tags, owner, target, anchor, signature, signer, random) ==
    InitTags(tags,
             [signer |-> signer,
              raw_tags |-> IF tags.k = "bytes" THEN tags.v ELSE <<0>>,
              raw_owner |-> b64dec_if_not_bytes(owner),
              raw_signature |-> b64dec_if_not_bytes(signature),
              target |-> IF target = None THEN None ELSE OptionalB64(target[1]),
              anchor |-> OptionalB64(IF anchor = None THEN ArgBytes(random) ELSE anchor[1])])

Header_signature_type(h) == h.signer

Header_raw_target(h) == IF h.target # None THEN b64dec(h.target[1]) ELSE <<>>

Header_raw_anchor(h) == IF h.anchor # None THEN b64dec(h.anchor[1]) ELSE <<>>

\* the signature property: None for an empty signature
Header_signature(h) ==
    IF Len(h.raw_signature) # 0 THEN Some(b64enc(h.raw_signature)) ELSE None

Header_owner(h) == b64enc(h.raw_owner)

Header_raw_id(h) == SHA256(h.raw_signature)

Header_id(h) == b64enc(Header_raw_id(h))

Header_get_len_bytes(h) ==
    2 + signature_length(h.signer) + owner_length(h.signer) + 2
      + (IF h.target # None THEN 32 ELSE 0)
      + (IF h.anchor # None THEN 32 ELSE 0)
      + 16 + Len(h.raw_tags)

\* the struct.pack of tobytes, given the decoded tags
PackHeader(h, tags) ==
    IF tags.exc # "" THEN [exc |-> tags.exc, bytes |-> <<>>]
    ELSE [exc |-> "",
          bytes |-> ToLittle(h.signer, 2)
                    \o PackS(signature_length(h.signer), h.raw_signature)
                    \o PackS(owner_length(h.signer), h.raw_owner)
                    \o (IF h.target # None
                        THEN <<1>> \o PackS(32, Header_raw_target(h)) ELSE <<0>>)
                    \o (IF h.anchor # None
                        THEN <<1>> \o PackS(32, Header_raw_anchor(h)) ELSE <<0>>)
                    \o ToLittle(Len(tags.tags), 8)
                    \o ToLittle(Len(h.raw_tags), 8)
                    \o h.raw_tags]

\* tobytes: len(self.tags) decodes raw_tags and raises what the decoder raises
Header_tobytes(h) == PackHeader(h, Header_tags(h))

\* the dict of tojson, given the decoded tags
HeaderJson(h, tags, nonce) ==
    IF tags.exc # "" THEN [exc |-> tags.exc, json |-> <<>>]
    ELSE [exc |-> "",
          json |-> Some([owner |-> Header_owner(h),
                         target |-> IF h.target # None THEN h.target[1] ELSE <<>>,
                         nonce |-> IF nonce # None THEN nonce[1] ELSE <<>>,
                         tags |-> [i \in 1..Len(tags.tags) |-> encode_tag(tags.tags[i])],
                         signature |-> Header_signature(h),
                         id |-> Header_id(h)])]

\* tojson that writes the target where the nonce belongs
Header_tojson_swapped(h) == HeaderJson(h, Header_tags(h), h.target)

Header_tojson(h) == HeaderJson(h, Header_tags(h), h.anchor)

\* fromjson: the signer is always the default one
Header_fromjson(j) ==
    Header_init([k |-> "list", v |-> [i \in 1..Len(j.tags) |-> decode_tag(j.tags[i])]],
                ArgBytes(b64dec(j.owner)),
                Some(ArgStr(j.target)),
                Some(ArgStr(j.nonce)),
                ArgStr(j.signature[1]),
                DEFAULT_SIGNER,
                <<>>)

Raise(e, pos) == [exc |-> e, h |-> <<>>, pos |-> pos]

\* the end of fromstream: the checks of the tags, the assertions and the
\* result; pos is the stream position, offset the computed header length,
\* tags the decoded raw_tags, result the header built from the fields read
Header_fromstream_result(start, pos, offset, tags_len, raw_tags_len, tags, result) ==
    IF raw_tags_len > 0 /\ tags.exc # "" THEN Raise(tags.exc, pos)
    ELSE IF /\ raw_tags_len > 0
            /\ (tags.pos # raw_tags_len \/ Len(tags.tags) # tags_len)
            /\ ~(tags.pos < raw_tags_len)
    THEN Raise("Exception: incorrect tags length", pos)
    ELSE IF pos # offset + start THEN Raise("AssertionError", pos)
    ELSE IF offset - raw_tags_len # Header_get_len_bytes(result) - Len(result.raw_tags)
    THEN Raise("AssertionError", pos)
    ELSE IF offset # Header_get_len_bytes(result) THEN Raise("AssertionError", pos)
    ELSE [exc |-> "", h |-> Some(result), pos |-> pos]

\* fromstream after raw_tags was read
Header_fromstream_raw_tags(start, pos, offset, tags_len, raw_tags_len, raw_tags, fields) ==
    Header_fromstream_result(
        start, pos, offset, tags_len, raw_tags_len, tagsfromstream(raw_tags),
        Header_init([k |-> "bytes", v |-> raw_tags], ArgBytes(fields.raw_owner),
                    fields.target, Some(ArgBytes(fields.anchor)),
                    ArgBytes(fields.raw_signature), fields.signer, <<>>))

\* fromstream after tags_len and raw_tags_len were unpacked
Header_fromstream_counts(buf, start, pos, offset, tags_len, raw_tags_len, fields) ==
    IF raw_tags_len > 0
    THEN Header_fromstream_raw_tags(start, StreamEnd(buf, pos, raw_tags_len),
                                    offset + raw_tags_len, tags_len, raw_tags_len,
                                    StreamRead(buf, pos, raw_tags_len), fields)
    ELSE Header_fromstream_raw_tags(start, pos, offset, tags_len, raw_tags_len, <<>>, fields)

\* fromstream from the tags count on: p is the stream position, offset the
\* number of bytes the header is computed to have so far, fields what was read
Header_fromstream_tags(buf, start, p, offset, fields) ==
    IF Len(StreamRead(buf, p, 16)) # 16 THEN Raise("struct.error", StreamEnd(buf, p, 16))
    ELSE Header_fromstream_counts(buf, start, p + 16, offset + 16,
                                  FromLittle(SubSeq(buf, p + 1, p + 8)),
                                  FromLittle(SubSeq(buf, p + 9, p + 16)), fields)

\* fromstream from the anchor flag on
Header_fromstream_anchor(buf, start, p, offset, fields) ==
    IF p >= Len(buf) THEN Raise("IndexError", p)
    ELSE IF buf[p + 1] \notin {0, 1} THEN Raise("Exception: unknown anchor flag value", p + 1)
    ELSE IF buf[p + 1] # 0
    THEN Header_fromstream_tags(buf, start, StreamEnd(buf, p + 1, 32), offset + 33,
                                [fields EXCEPT !.anchor = StreamRead(buf, p + 1, 32)])
    ELSE Header_fromstream_tags(buf, start, p + 1, offset + 1, fields)

\* a parser that takes every target flag other than 0 as set
Header_fromstream_flags_lenient(buf, start, p, offset, fields) ==
    IF p >= Len(buf) THEN Raise("IndexError", p)
    ELSE IF buf[p + 1] # 0
    THEN Header_fromstream_anchor(
             buf, start, StreamEnd(buf, p + 1, 32), offset + 33,
             [fields EXCEPT !.target = Some(ArgBytes(StreamRead(buf, p + 1, 32)))])
    ELSE Header_fromstream_anchor(buf, start, p + 1, offset + 1, fields)

\* fromstream from the target flag on
Header_fromstream_flags(buf, start, p, offset, fields) ==
    IF p >= Len(buf) THEN Raise("IndexError", p)
    ELSE IF buf[p + 1] \notin {0, 1} THEN Raise("Exception: unknown target flag value", p + 1)
    ELSE IF buf[p + 1] # 0
    THEN Header_fromstream_anchor(
             buf, start, StreamEnd(buf, p + 1, 32), offset + 33,
             [fields EXCEPT !.target = Some(ArgBytes(StreamRead(buf, p + 1, 32)))])
    ELSE Header_fromstream_anchor(buf, start, p + 1, offset + 1, fields)

\* fromstream after the signature type was unpacked
Header_fromstream_signer(buf, start, p, signature_type) ==
    IF signature_type \notin BY_TYPE THEN Raise("Exception: unknown signature type", p)
    ELSE IF Len(StreamRead(buf, p, signature_length(signature_type)
                                   + owner_length(signature_type)))
            # signature_length(signature_type) + owner_length(signature_type)
    THEN Raise("struct.error", Len(buf))
    ELSE Header_fromstream_flags(
             buf, start,
             p + signature_length(signature_type) + owner_length(signature_type),
             2 + signature_length(signature_type) + owner_length(signature_type),
             [signer |-> signature_type,
              raw_signature |-> SubSeq(buf, p + 1, p + signature_length(signature_type)),
              raw_owner |-> SubSeq(buf, p + signature_length(signature_type) + 1,
                                   p + signature_length(signature_type)
                                     + owner_length(signature_type)),
              target |-> None,
              anchor |-> <<>>])

\* fromstream(stream) with the stream at position start
Header_fromstream(buf, start) ==
    IF Len(StreamRead(buf, start, 2)) # 2 THEN Raise("struct.error", StreamEnd(buf, start, 2))
    ELSE Header_fromstream_signer(buf, start, start + 2, FromLittle(StreamRead(buf, start, 2)))

(***************************************************************************)
(* DataItem                                                                *)
(***************************************************************************)
DataItem_init(header, data, version) ==
    [header |-> header, data |-> data, version |-> version]

\* [[tag['name'], tag['value']] for tag in self.header.tags]
TagPairs(tags) ==
    List([i \in 1..Len(tags) |-> List(<<Blob(tags[i].name), Blob(tags[i].value)>>)])

\* a list with the anchor before the target
SignatureItems_swapped(d, tags) ==
    <<Blob(<<100, 97, 116, 97, 105, 116, 101, 109>>), Blob(<<49>>)>>
    \o (IF d.version >= 2 THEN <<Blob(AsciiDigits(Header_signature_type(d.header)))>>
        ELSE <<>>)
    \o <<Blob(d.header.raw_owner), Blob(Header_raw_anchor(d.header)),
         Blob(Header_raw_target(d.header))>>
    \o (IF d.version >= 2 THEN <<Blob(d.header.raw_tags)>> ELSE <<TagPairs(tags.tags)>>)
    \o <<Blob(d.data)>>

\* get_raw_signature_data: the list handed to deep_hash
SignatureItems(d, tags) ==
    <<Blob(<<100, 97, 116, 97, 105, 116, 101, 109>>), Blob(<<49>>)>>
    \o (IF d.version >= 2 THEN <<Blob(AsciiDigits(Header_signature_type(d.header)))>>
        ELSE <<>>)
    \o <<Blob(d.header.raw_owner), Blob(Header_raw_target(d.header)),
         Blob(Header_raw_anchor(d.header))>>
    \o (IF d.version >= 2 THEN <<Blob(d.header.raw_tags)>> ELSE <<TagPairs(tags.tags)>>)
    \o <<Blob(d.data)>>

\* get_raw_signature_data, given the decoded tags of the header
RawSignatureData(d, tags) ==
    IF d.version < 2 /\ tags.exc # "" THEN [exc |-> tags.exc, val |-> <<>>]
    ELSE [exc |-> "", val |-> deep_hash(List(SignatureItems(d, tags)))]

DataItem_get_raw_signature_data(d) == RawSignatureData(d, Header_tags(d.header))

\* the second line of sign and the return: d has the new owner, data is the
\* signing input
SignWith(d, key, data) ==
    IF data.exc # "" THEN [exc |-> data.exc, d |-> d, id |-> <<>>]
    ELSE [exc |-> "",
          d |-> [d EXCEPT !.header.raw_signature = Arweave_sign(key, data.val)],
          id |-> b64enc(SHA256(Arweave_sign(key, data.val)))]

\* sign that computes the signing input before it sets the owner
DataItem_sign_stale_owner(d, key) ==
    IF ~SignerImplemented(d.header.signer)
    THEN [exc |-> "NotImplementedError", d |-> d, id |-> <<>>]
    ELSE SignWith([d EXCEPT !.header.raw_owner = Arweave_raw_owner(key)], key,
                  DataItem_get_raw_signature_data(d))

\* sign(private_key): the item after the call, and the id returned
DataItem_sign(d, key) ==
    IF ~SignerImplemented(d.header.signer)
    THEN [exc |-> "NotImplementedError", d |-> d, id |-> <<>>]
    ELSE SignWith([d EXCEPT !.header.raw_owner = Arweave_raw_owner(key)], key,
                  DataItem_get_raw_signature_data(
                      [d EXCEPT !.header.raw_owner = Arweave_raw_owner(key)]))

\* a count check that is off by one
TooManyTags_offbyone(tags) == Len(tags) >= MaxTags

\* len(self.header.tags) > 128
TooManyTags(tags) == Len(tags) > MaxTags

\* the tag whose name and value the size checks after the loop look at: the
\* loop variable keeps the last tag of the list
CheckedTags(tags) == {Len(tags)}

\* verify(), given the decoded tags, the public key of the owner and the
\* signing input
VerifyWith(h, tags, public_key, data) ==
    IF tags.exc # "" THEN [exc |-> tags.exc, val |-> FALSE]
    ELSE IF TooManyTags(tags.tags) THEN [exc |-> "", val |-> FALSE]
    ELSE IF Len(Header_raw_anchor(h)) > MaxAnchor THEN [exc |-> "", val |-> FALSE]
    ELSE IF \E i \in 1..Len(tags.tags) :
               Len(tags.tags[i].name) = 0 \/ Len(tags.tags[i].value) = 0
    THEN [exc |-> "", val |-> FALSE]
    ELSE IF Len(tags.tags) = 0 THEN [exc |-> "UnboundLocalError", val |-> FALSE]
    ELSE IF \E i \in CheckedTags(tags.tags) : Len(tags.tags[i].name) > MaxTagName
    THEN [exc |-> "", val |-> FALSE]
    ELSE IF \E i \in CheckedTags(tags.tags) : Len(tags.tags[i].value) > MaxTagValue
    THEN [exc |-> "", val |-> FALSE]
    ELSE IF ~SignerImplemented(h.signer) THEN [exc |-> "NotImplementedError", val |-> FALSE]
    ELSE IF public_key.exc # "" THEN [exc |-> public_key.exc, val |-> FALSE]
    ELSE IF data.exc # "" THEN [exc |-> data.exc, val |-> FALSE]
    ELSE [exc |-> "", val |-> Arweave_verify(public_key, data.val, h.raw_signature)]

\* verify()
DataItem_verify(d) ==
    VerifyWith(d.header, Header_tags(d.header), Arweave_public_key(d.header.raw_owner),
               DataItem_get_raw_signature_data(d))

\* result = self.header.tojson(); result['data'] = b64enc(self.data)
WithData(j, data) ==
    IF j.exc # "" THEN j
    ELSE [exc |-> "",
          json |-> Some([owner |-> j.json[1].owner, target |-> j.json[1].target,
                         nonce |-> j.json[1].nonce, tags |-> j.json[1].tags,
                         signature |-> j.json[1].signature, id |-> j.json[1].id,
                         data |-> b64enc(data)])]

DataItem_tojson(d) == WithData(Header_tojson(d.header), d.data)

DataItem_get_len_bytes(d) == Header_get_len_bytes(d.header) + Len(d.data)

\* self.header.tobytes() + self.data
AppendData(h, data) == IF h.exc # "" THEN h ELSE [exc |-> "", bytes |-> h.bytes \o data]

DataItem_tobytes(d) == AppendData(Header_tobytes(d.header), d.data)

DataItem_fromjson(j) == DataItem_init(Header_fromjson(j), b64dec(j.data), 1)

\* the number of bytes fromstream asks the stream for after the header r.h
DataLength(r, length) ==
    IF length = None THEN -1 ELSE length[1] - Header_get_len_bytes(r.h[1])

\* fromstream after header = ANS104DataItemHeader.fromstream(stream)
ReadData(buf, length, r) ==
    IF r.exc # "" THEN [exc |-> r.exc, d |-> <<>>, pos |-> r.pos]
    ELSE [exc |-> "",
          d |-> Some(DataItem_init(r.h[1], StreamRead(buf, r.pos, DataLength(r, length)), 2)),
          pos |-> StreamEnd(buf, r.pos, DataLength(r, length))]

\* fromstream(stream, length): length is an option
DataItem_fromstream(buf, start, length) == ReadData(buf, length, Header_fromstream(buf, start))

DataItem_frombytes(data) == DataItem_fromstream(data, 0, None)

(***************************************************************************)
(* ANS104BundleHeader: length_id_pairs is a sequence of <<length, id>>     *)
(***************************************************************************)
\* acc[key] = value
DictSet(acc, kv, at) ==
    IF at = {} THEN Append(acc, kv) ELSE [acc EXCEPT ![CHOOSE i \in at : TRUE] = kv]

RECURSIVE DictItems(_, _)
\* the items of the dict built from a sequence of <<key, value>>: a key
\* keeps the place of its first insertion and takes the value of its last
DictItems(kvs, acc) ==
    IF kvs = <<>> THEN acc
    ELSE DictItems(Tail(kvs),
                   DictSet(acc, Head(kvs), {i \in 1..Len(acc) : acc[i][1] = Head(kvs)[1]}))

\* __init__(length_id_pairs) given the items of a dict id -> length
BundleHeader_init_dict(items) == [i \in 1..Len(items) |-> <<items[i][2], items[i][1]>>]

BundleHeader_get_count(pairs) == Len(pairs)

\* a header length that counts 32 bytes for an entry
BundleHeader_get_len_bytes_short(pairs) == 32 + Len(pairs) * 32

BundleHeader_get_len_bytes(pairs) == 32 + Len(pairs) * 64

RECURSIVE RangeFrom(_, _, _, _)
\* the loop of get_range: None when no pair carries the id
RangeFrom(pairs, i, total, id) ==
    IF i > Len(pairs) THEN None
    ELSE IF pairs[i][2] = id THEN Some(<<total, total + pairs[i][1]>>)
    ELSE RangeFrom(pairs, i + 1, total + pairs[i][1], id)

BundleHeader_get_range(pairs, id) ==
    RangeFrom(pairs, 1, BundleHeader_get_len_bytes(pairs), id)

BundleHeader_get_offset(pairs, id) == BundleHeader_get_range(pairs, id)[1][1]

BundleHeader_tobytes(pairs) ==
    ToLittle(BundleHeader_get_count(pairs), 32)
    \o Concat([i \in 1..Len(pairs) |-> ToLittle(pairs[i][1], 32) \o b64dec(pairs[i][2])])

\* the stream position after k entries were read from position p
EntryEnd(buf, p, k) == IF p + 64 * k > Len(buf) THEN Len(buf) ELSE p + 64 * k

\* fromstream after entryct was read
ReadEntries(buf, p, entryct) ==
    [pairs |-> [i \in 1..entryct |->
                  <<FromLittle(StreamRead(buf, EntryEnd(buf, p, i - 1), 32)),
                    b64enc(StreamRead(buf, StreamEnd(buf, EntryEnd(buf, p, i - 1), 32), 32))>>],
     pos |-> EntryEnd(buf, p, entryct)]

BundleHeader_fromstream(buf, start) ==
    ReadEntries(buf, StreamEnd(buf, start, 32), FromLittle(StreamRead(buf, start, 32)))

(***************************************************************************)
(* Bundle: a sequence of data items                                        *)
(***************************************************************************)
\* the header property: a dict id -> length handed to ANS104BundleHeader
Bundle_header(dataitems) ==
    BundleHeader_init_dict(
        DictItems([i \in 1..Len(dataitems) |->
                     <<Header_id(dataitems[i].header), DataItem_get_len_bytes(dataitems[i])>>],
                  <<>>))

\* tobytes, given item.tobytes() of every item: the first that raises ends it
JoinParts(dataitems, parts) ==
    IF \E i \in 1..Len(parts) : parts[i].exc # ""
    THEN [exc |-> parts[CHOOSE i \in 1..Len(parts) :
                          /\ parts[i].exc # ""
                          /\ \A j \in 1..(i - 1) : parts[j].exc = ""].exc,
          bytes |-> <<>>]
    ELSE [exc |-> "",
          bytes |-> BundleHeader_tobytes(Bundle_header(dataitems))
                    \o Concat([i \in 1..Len(parts) |-> parts[i].bytes])]

Bundle_tobytes(dataitems) ==
    JoinParts(dataitems, [i \in 1..Len(dataitems) |-> DataItem_tobytes(dataitems[i])])

RECURSIVE ReadItems(_, _, _, _)
\* the list comprehension goes on after one DataItem.fromstream
ReadNextItem(buf, pairs, i, acc, r) ==
    IF r.exc # "" THEN [exc |-> r.exc, dataitems |-> <<>>, pos |-> r.pos]
    ELSE ReadItems(buf, pairs, i + 1, [exc |-> "", dataitems |-> Append(acc.dataitems, r.d[1]),
                                       pos |-> r.pos])

\* [DataItem.fromstream(stream, length) for length, id in length_id_pairs]
ReadItems(buf, pairs, i, acc) ==
    IF i > Len(pairs) THEN acc
    ELSE ReadNextItem(buf, pairs, i, acc, DataItem_fromstream(buf, acc.pos, Some(pairs[i][1])))

\* fromstream after header = ANS104BundleHeader.fromstream(stream)
ReadBundle(buf, header) ==
    ReadItems(buf, header.pairs, 1, [exc |-> "", dataitems |-> <<>>, pos |-> header.pos])

Bundle_fromstream(buf, start) == ReadBundle(buf, BundleHeader_fromstream(buf, start))

Bundle_frombytes(bytes) == Bundle_fromstream(bytes, 0)

(***************************************************************************)
(* Codec primitives of blocks (ar.utils; spec 4.A): a length prefix of     *)
(* bits/8 bytes, big-endian, then the bytes of the integer or of the blob  *)
(***************************************************************************)
RECURSIVE ByteLength(_)
\* (n.bit_length() + 7) // 8
ByteLength(n) == IF n = 0 THEN 0 ELSE 1 + ByteLength(n \div 256)

RECURSIVE ToBig(_, _)
\* n.to_bytes(w, 'big')
ToBig(n, w) == IF w = 0 THEN <<>> ELSE ToBig(n \div 256, w - 1) \o <<n % 256>>

RECURSIVE FromBig(_)
\* int.from_bytes(b, 'big')
FromBig(b) == IF b = <<>> THEN 0 ELSE 256 * FromBig(SubSeq(b, 1, Len(b) - 1)) + b[Len(b)]

arintenc(n, bits) == ToBig(ByteLength(n), bits \div 8) \o ToBig(n, ByteLength(n))

arbinenc(b, bits) == ToBig(Len(b), bits \div 8) \o b

\* stream.read(L) at pos
ReadBlob(buf, pos, L) == [val |-> StreamRead(buf, pos, L), pos |-> StreamEnd(buf, pos, L)]

arbindec(buf, pos, bits) ==
    ReadBlob(buf, StreamEnd(buf, pos, bits \div 8), FromBig(StreamRead(buf, pos, bits \div 8)))

\* the integer of the bytes r read
AsInteger(r) == [val |-> FromBig(r.val), pos |-> r.pos]

arintdec(buf, pos, bits) == AsInteger(arbindec(buf, pos, bits))

\* a Transaction (ar/transaction.py; spec 4.G): its binary form raw, and its
\* id, the base64url of a SHA-256
Transaction(raw) == [k |-> "Transaction", raw |-> raw, id |-> ArgStr(b64enc(SHA256(raw)))]

\* Transaction.tobytes: a form that fromstream can delimit
Transaction_tobytes(tx) == arbinenc(tx.raw, 24)

\* the Transaction of the bytes r read
AsTransaction(r) == [val |-> Transaction(r.val), pos |-> r.pos]

\* Transaction.fromstream: tobytes and frombytes round-trip through binary
Transaction_fromstream(buf, pos) == AsTransaction(arbindec(buf, pos, 24))

RECURSIVE Reverse(_)
\* l[::-1]
Reverse(l) == IF l = <<>> THEN <<>> ELSE Append(Reverse(Tail(l)), Head(l))

\* the fork heights of ar/__init__.py
FORK_2_4 == 633720

FORK_2_5 == 812970

(***************************************************************************)
(* Block (block.py).  A value that Python code tells apart by its type is  *)
(* a record [k |-> "int" or "str" or "bytes", v |-> ...]; a string of      *)
(* digits is the sequence of its character codes.                          *)
(***************************************************************************)
PyInt(n) == [k |-> "int", v |-> n]

RECURSIVE ParseDigits(_)
ParseDigits(digits) ==
    IF digits = <<>> THEN 0
    ELSE 10 * ParseDigits(SubSeq(digits, 1, Len(digits) - 1)) + (digits[Len(digits)] - 48)

\* int(x) for an int or a string of decimal digits
PyIntOf(x) == IF x.k = "int" THEN x ELSE PyInt(ParseDigits(x.v))

\* str(x)
PyStrOf(x) == IF x.k = "int" THEN ArgStr(AsciiDigits(x.v)) ELSE x

\* usd_to_ar_rate_raw of __init__: a tuple or list is kept, a number n is
\* turned into Fraction(n), that is (n, 1)
RateRaw(rate) == IF rate.k = "pair" THEN rate.v ELSE <<rate, PyInt(1)>>

\* __init__: the blobs are arguments of type bytes or str, txs a list of
\* bytes, of str or of Transaction
Block_init(kw) ==
    [indep_hash |-> b64enc_if_not_str(kw.indep_hash),
     prev_block |-> b64enc_if_not_str(kw.prev_block),
     timestamp |-> kw.timestamp,
     nonce |-> b64enc_if_not_str(kw.nonce),
     height |-> kw.height,
     diff |-> kw.diff,
     cumulative_diff |-> kw.cumulative_diff,
     last_retarget |-> kw.last_retarget,
     hash |-> b64enc_if_not_str(kw.hash),
     block_size |-> kw.block_size,
     weave_size |-> kw.weave_size,
     reward_addr |-> b64enc_if_not_str(kw.reward_addr),
     tx_root |-> b64enc_if_not_str(kw.tx_root),
     wallet_list |-> b64enc_if_not_str(kw.wallet_list),
     hash_list_merkle |-> b64enc_if_not_str(kw.hash_list_merkle),
     reward_pool |-> kw.reward_pool,
     packing_threshold |-> kw.packing_threshold,
     strict_chunk_threshold |-> kw.strict_chunk_threshold,
     usd_to_ar_rate_raw |-> RateRaw(kw.usd_to_ar_rate),
     scheduled_usd_to_ar_rate_raw |-> RateRaw(kw.scheduled_usd_to_ar_rate),
     poa_option |-> kw.poa_option,
     poa_chunk |-> b64enc_if_not_str(kw.poa_chunk),
     poa_tx_path |-> b64enc_if_not_str(kw.poa_tx_path),
     poa_data_path |-> b64enc_if_not_str(kw.poa_data_path),
     tags |-> kw.tags,
     txs |-> IF Len(kw.txs) # 0 /\ kw.txs[1].k = "bytes"
             THEN [i \in 1..Len(kw.txs) |-> ArgStr(b64enc_if_not_str(Reverse(kw.txs)[i]))]
             ELSE kw.txs]

\* the fixed part of the binary layout, in stream order: the kind of each
\* field and the width in bits of its length prefix (for indep_hash, which
\* has none, its length in bytes)
Layout ==
    <<[kind |-> "raw", bits |-> 48], [kind |-> "bin", bits |-> 8],
      [kind |-> "int", bits |-> 8], [kind |-> "bin", bits |-> 16],
      [kind |-> "int", bits |-> 8], [kind |-> "int", bits |-> 16],
      [kind |-> "int", bits |-> 16], [kind |-> "int", bits |-> 8],
      [kind |-> "bin", bits |-> 8], [kind |-> "int", bits |-> 16],
      [kind |-> "int", bits |-> 16], [kind |-> "bin", bits |-> 8],
      [kind |-> "bin", bits |-> 8], [kind |-> "bin", bits |-> 8],
      [kind |-> "bin", bits |-> 8], [kind |-> "int", bits |-> 8],
      [kind |-> "int", bits |-> 8], [kind |-> "int", bits |-> 8],
      [kind |-> "int", bits |-> 8], [kind |-> "int", bits |-> 8],
      [kind |-> "int", bits |-> 8], [kind |-> "int", bits |-> 8],
      [kind |-> "int", bits |-> 8], [kind |-> "bin", bits |-> 24],
      [kind |-> "bin", bits |-> 24], [kind |-> "bin", bits |-> 24]>>

\* the values tobytes writes for the fixed part: self.x_raw is b64dec(self.x)
\* (__getattr__)
LayoutValues(b) ==
    <<b64dec(b.indep_hash), b64dec(b.prev_block), b.timestamp.v, b64dec(b.nonce),
      b.height.v, b.diff.v, b.cumulative_diff.v, b.last_retarget.v, b64dec(b.hash),
      b.block_size.v, b.weave_size.v, b64dec(b.reward_addr), b64dec(b.tx_root),
      b64dec(b.wallet_list), b64dec(b.hash_list_merkle), b.reward_pool.v,
      b.packing_threshold.v, b.strict_chunk_threshold.v, b.usd_to_ar_rate_raw[1].v,
      b.usd_to_ar_rate_raw[2].v, b.scheduled_usd_to_ar_rate_raw[1].v,
      b.scheduled_usd_to_ar_rate_raw[2].v, b.poa_option.v,
      b64dec(b.poa_chunk), b64dec(b.poa_tx_path), b64dec(b.poa_data_path)>>

\* one stream.write of the fixed part
WriteField(f, value) ==
    IF f.kind = "raw" THEN value
    ELSE IF f.kind = "bin" THEN arbinenc(value, f.bits)
    ELSE arintenc(value, f.bits)

\* one transaction as tobytes writes it: a Transaction whole, else its id
WriteTx(tx) ==
    IF tx.k = "Transaction" THEN Transaction_tobytes(tx) ELSE arbinenc(b64dec(tx.v), 24)

\* the transactions as tobytes writes them, in the order given
WriteTxs(txs) == Concat([i \in 1..Len(txs) |-> WriteTx(txs[i])])

\* tobytes that writes the transactions in the in-memory order
Block_tobytes_unreversed(b) ==
    Concat([i \in 1..Len(Layout) |-> WriteField(Layout[i], LayoutValues(b)[i])])
    \o ToBig(Len(b.tags), 2)
    \o Concat([i \in 1..Len(b.tags) |-> arbinenc(b.tags[i], 16)])
    \o ToBig(Len(b.txs), 2)
    \o WriteTxs(b.txs)

\* tobytes: the transactions are written last first
Block_tobytes(b) ==
    Concat([i \in 1..Len(Layout) |-> WriteField(Layout[i], LayoutValues(b)[i])])
    \o ToBig(Len(b.tags), 2)
    \o Concat([i \in 1..Len(b.tags) |-> arbinenc(b.tags[i], 16)])
    \o ToBig(Len(b.txs), 2)
    \o WriteTxs(Reverse(b.txs))

\* one read of the fixed part
ReadField(buf, pos, f) ==
    IF f.kind = "raw"
    THEN [val |-> StreamRead(buf, pos, f.bits), pos |-> StreamEnd(buf, pos, f.bits)]
    ELSE IF f.kind = "bin" THEN arbindec(buf, pos, f.bits)
    ELSE arintdec(buf, pos, f.bits)

RECURSIVE ReadFields(_, _, _)
\* the value read is kept and the next field is read where the read stopped
KeepField(buf, i, vals, r) == ReadFields(buf, i + 1, [vals |-> Append(vals.vals, r.val), pos |-> r.pos])

\* the reads of the fixed part from field i on
ReadFields(buf, i, vals) ==
    IF i > Len(Layout) THEN vals
    ELSE KeepField(buf, i, vals, ReadField(buf, vals.pos, Layout[i]))

RECURSIVE ReadBins(_, _, _, _)
\* [arbindec(stream, bits) for idx in range(n)]
KeepBin(buf, n, bits, vals, r) ==
    ReadBins(buf, n - 1, bits, [vals |-> Append(vals.vals, r.val), pos |-> r.pos])

ReadBins(buf, n, bits, vals) ==
    IF n = 0 THEN vals ELSE KeepBin(buf, n, bits, vals, arbindec(buf, vals.pos, bits))

\* a list read after its two-byte count at pos
ReadCountedBins(buf, pos, bits) ==
    ReadBins(buf, FromBig(StreamRead(buf, pos, 2)), bits,
             [vals |-> <<>>, pos |-> StreamEnd(buf, pos, 2)])

\* the call of cls at the end of fromstream: v are the values of the fixed
\* part, tags the tags read, txs the transactions read, last first
Block_fromfields(v, tags, txs) ==
    Block_init([indep_hash |-> ArgBytes(v[1]), prev_block |-> ArgBytes(v[2]),
                timestamp |-> PyInt(v[3]), nonce |-> ArgBytes(v[4]), height |-> PyInt(v[5]),
                diff |-> PyInt(v[6]), cumulative_diff |-> PyInt(v[7]),
                last_retarget |-> PyInt(v[8]), hash |-> ArgBytes(v[9]),
                block_size |-> PyInt(v[10]), weave_size |-> PyInt(v[11]),
                reward_addr |-> ArgBytes(v[12]), tx_root |-> ArgBytes(v[13]),
                wallet_list |-> ArgBytes(v[14]), hash_list_merkle |-> ArgBytes(v[15]),
                reward_pool |-> PyInt(v[16]), packing_threshold |-> PyInt(v[17]),
                strict_chunk_threshold |-> PyInt(v[18]),
                usd_to_ar_rate |-> [k |-> "pair", v |-> <<PyInt(v[19]), PyInt(v[20])>>],
                scheduled_usd_to_ar_rate |->
                    [k |-> "pair", v |-> <<PyInt(v[21]), PyInt(v[22])>>],
                poa_option |-> PyInt(v[23]), poa_chunk |-> ArgBytes(v[24]),
                poa_tx_path |-> ArgBytes(v[25]), poa_data_path |-> ArgBytes(v[26]),
                tags |-> tags,
                txs |-> Reverse(txs)])

RECURSIVE ReadTxs(_, _, _)
\* [Transaction.fromstream(stream) for idx in range(txs_count)]
KeepTx(buf, n, vals, r) == ReadTxs(buf, n - 1, [vals |-> Append(vals.vals, r.val), pos |-> r.pos])

ReadTxs(buf, n, vals) ==
    IF n = 0 THEN vals ELSE KeepTx(buf, n, vals, Transaction_fromstream(buf, vals.pos))

\* fromstream after the tags: the transactions are read and reversed
Block_fromstream_txs(buf, fixed, tags) ==
    Block_fromfields(fixed.vals, tags.vals,
                     ReadTxs(buf, FromBig(StreamRead(buf, tags.pos, 2)),
                             [vals |-> <<>>, pos |-> StreamEnd(buf, tags.pos, 2)]).vals)

\* fromstream after the fixed part
Block_fromstream_tags(buf, fixed) ==
    Block_fromstream_txs(buf, fixed, ReadCountedBins(buf, fixed.pos, 16))

Block_fromstream(buf, start) ==
    Block_fromstream_tags(buf, ReadFields(buf, 1, [vals |-> <<>>, pos |-> start]))

Block_frombytes(bytes) == Block_fromstream(bytes, 0)

\* tojson that writes the data path where the tx path belongs
Block_tojson_swapped(b) ==
    [usd_to_ar_rate |-> [i \in 1..Len(b.usd_to_ar_rate_raw) |-> PyStrOf(b.usd_to_ar_rate_raw[i])],
     scheduled_usd_to_ar_rate |->
         [i \in 1..Len(b.scheduled_usd_to_ar_rate_raw) |->
            PyStrOf(b.scheduled_usd_to_ar_rate_raw[i])],
     packing_2_5_threshold |-> PyStrOf(b.packing_threshold),
     strict_data_split_threshold |-> PyStrOf(b.strict_chunk_threshold),
     nonce |-> b.nonce,
     previous_block |-> b.prev_block,
     timestamp |-> b.timestamp,
     last_retarget |-> b.last_retarget,
     diff |-> PyStrOf(b.diff),
     height |-> b.height,
     hash |-> b.hash,
     indep_hash |-> b.indep_hash,
     txs |-> [i \in 1..Len(b.txs) |->
                IF b.txs[i].k = "Transaction" THEN b.txs[i].id ELSE b.txs[i]],
     tx_root |-> b.tx_root,
     wallet_list |-> b.wallet_list,
     reward_addr |-> b.reward_addr,
     tags |-> b.tags,
     reward_pool |-> PyStrOf(b.reward_pool),
     weave_size |-> PyStrOf(b.weave_size),
     block_size |-> PyStrOf(b.block_size),
     cumulative_diff |-> PyStrOf(b.cumulative_diff),
     hash_list_merkle |-> b.hash_list_merkle,
     poa |-> [option |-> PyStrOf(b.poa_option), tx_path |-> b.poa_data_path,
              data_path |-> b.poa_tx_path, chunk |-> b.poa_chunk]]

\* tojson: a Transaction is written as its id
Block_tojson(b) ==
    [usd_to_ar_rate |-> [i \in 1..Len(b.usd_to_ar_rate_raw) |-> PyStrOf(b.usd_to_ar_rate_raw[i])],
     scheduled_usd_to_ar_rate |->
         [i \in 1..Len(b.scheduled_usd_to_ar_rate_raw) |->
            PyStrOf(b.scheduled_usd_to_ar_rate_raw[i])],
     packing_2_5_threshold |-> PyStrOf(b.packing_threshold),
     strict_data_split_threshold |-> PyStrOf(b.strict_chunk_threshold),
     nonce |-> b.nonce,
     previous_block |-> b.prev_block,
     timestamp |-> b.timestamp,
     last_retarget |-> b.last_retarget,
     diff |-> PyStrOf(b.diff),
     height |-> b.height,
     hash |-> b.hash,
     indep_hash |-> b.indep_hash,
     txs |-> [i \in 1..Len(b.txs) |->
                IF b.txs[i].k = "Transaction" THEN b.txs[i].id ELSE b.txs[i]],
     tx_root |-> b.tx_root,
     wallet_list |-> b.wallet_list,
     reward_addr |-> b.reward_addr,
     tags |-> b.tags,
     reward_pool |-> PyStrOf(b.reward_pool),
     weave_size |-> PyStrOf(b.weave_size),
     block_size |-> PyStrOf(b.block_size),
     cumulative_diff |-> PyStrOf(b.cumulative_diff),
     hash_list_merkle |-> b.hash_list_merkle,
     poa |-> [option |-> PyStrOf(b.poa_option), tx_path |-> b.poa_tx_path,
              data_path |-> b.poa_data_path, chunk |-> b.poa_chunk]]

\* fromjson: kwparams is a copy of data, so data is after the call what it
\* was before; the block built, and data after the call
Block_fromjson(data) ==
    [block |->
       Block_init([indep_hash |-> ArgStr(data.indep_hash),
                   prev_block |-> ArgStr(data.previous_block),
                   timestamp |-> PyIntOf(data.timestamp),
                   nonce |-> ArgStr(data.nonce),
                   height |-> data.height,
                   diff |-> PyIntOf(data.diff),
                   cumulative_diff |-> PyIntOf(data.cumulative_diff),
                   last_retarget |-> PyIntOf(data.last_retarget),
                   hash |-> ArgStr(data.hash),
                   block_size |-> PyIntOf(data.block_size),
                   weave_size |-> PyIntOf(data.weave_size),
                   reward_addr |-> ArgStr(data.reward_addr),
                   tx_root |-> ArgStr(data.tx_root),
                   wallet_list |-> ArgStr(data.wallet_list),
                   hash_list_merkle |-> ArgStr(data.hash_list_merkle),
                   reward_pool |-> PyIntOf(data.reward_pool),
                   packing_threshold |-> PyIntOf(data.packing_2_5_threshold),
                   strict_chunk_threshold |-> PyIntOf(data.strict_data_split_threshold),
                   usd_to_ar_rate |->
                       [k |-> "pair",
                        v |-> [i \in 1..Len(data.usd_to_ar_rate) |->
                                 PyIntOf(PyIntOf(data.usd_to_ar_rate[i]))]],
                   scheduled_usd_to_ar_rate |->
                       [k |-> "pair",
                        v |-> [i \in 1..Len(data.scheduled_usd_to_ar_rate) |->
                                 PyIntOf(PyIntOf(data.scheduled_usd_to_ar_rate[i]))]],
                   poa_option |-> PyIntOf(data.poa.option),
                   poa_chunk |-> ArgStr(data.poa.chunk),
                   poa_tx_path |-> ArgStr(data.poa.tx_path),
                   poa_data_path |-> ArgStr(data.poa.data_path),
                   tags |-> data.tags,
                   txs |-> data.txs]),
     data |-> data]

\* __getattr__ for self.tx: the name does not end in _raw and object has no
\* __getattr__ to fall back on
Block_tx(b) == [exc |-> "AttributeError", val |-> <<>>]

\* str(x).encode()
AsciiOf(x) == Blob(PyStrOf(x).v)

\* the items of _get_data_segment_base up to reward_addr, given self.tx
BaseItems(b, tx) ==
    <<AsciiOf(b.height), Blob(b64dec(b.prev_block)), Blob(b64dec(b.tx_root)),
      List([i \in 1..Len(tx) |->
              Blob(b64dec(IF tx[i].k = "Transaction" THEN tx[i].id.v ELSE tx[i].v))]),
      AsciiOf(b.block_size), AsciiOf(b.weave_size), Blob(b64dec(b.reward_addr))>>

\* _get_data_segment_base once self.tx was evaluated: from FORK_2_5 on
\* self.usd_to_ar_rate is a Fraction, which cannot be indexed; below FORK_2_4
\* the PoA list holds str, which deep_hash cannot hash
DataSegmentBase(b, tx) ==
    IF tx.exc # "" THEN [exc |-> tx.exc, val |-> <<>>]
    ELSE IF b.height.v >= FORK_2_5 THEN [exc |-> "TypeError", val |-> <<>>]
    ELSE IF b.height.v >= FORK_2_4
    THEN [exc |-> "",
          val |-> deep_hash(List(BaseItems(b, tx.val)
                                 \o <<List([i \in 1..Len(b.tags) |-> Blob(b.tags[i])])>>))]
    ELSE [exc |-> "TypeError", val |-> <<>>]

\* the list comprehension over self.tx is evaluated while the list is built
Block_get_data_segment_base(b) == DataSegmentBase(b, Block_tx(b))

\* _get_data_segment after bds_base was computed
DataSegment(b, bds_base) ==
    IF bds_base.exc # "" THEN bds_base
    ELSE [exc |-> "",
          val |-> deep_hash(List(<<Blob(bds_base.val), AsciiOf(b.timestamp),
                                   AsciiOf(b.last_retarget), AsciiOf(b.diff),
                                   AsciiOf(b.cumulative_diff), AsciiOf(b.reward_pool),
                                   Blob(b64dec(b.wallet_list)),
                                   Blob(b64dec(b.hash_list_merkle))>>))]

Block_get_data_segment(b) == DataSegment(b, Block_get_data_segment_base(b))

(***************************************************************************)
(* Wallet (wallet.py): the attribute last_tx, absent until the first       *)
(* get_last_transaction_id.  The peer is its current anchor and the        *)
(* anchors it has served.                                                  *)
(***************************************************************************)
\* Peer.tx_anchor: the anchor the peer hands out now
Peer_tx_anchor(p) == p.anchor

\* self.last_tx = ..., only when the wallet has none yet
StoreLastTx_once(w, anchor) ==
    IF w.last_tx = None THEN [w EXCEPT !.last_tx = Some(anchor)] ELSE w

\* self.last_tx = self.peer.tx_anchor()
StoreLastTx(w, anchor) == [w EXCEPT !.last_tx = Some(anchor)]

\* return self.last_tx
ReturnLastTx(w) == [wallet |-> w, val |-> w.last_tx]

Wallet_get_last_transaction_id(w, p) == ReturnLastTx(StoreLastTx(w, Peer_tx_anchor(p)))

(***************************************************************************)
(* TransactionUploader (utils/transaction_uploader.py).  chunks is the     *)
(* list of the sizes of the chunks of the transaction; a response of the   *)
(* peer is its status code and its text, the name of an error when it is   *)
(* one.  The clock (last_request_time_end) is left out.  The value of      *)
(* last_response_error carries its Python type: a str while the uploader   *)
(* runs, whatever the JSON held once it has been loaded.                   *)
(***************************************************************************)
MAX_CHUNKS_IN_BODY == 1

FATAL_CHUNK_UPLOAD_ERRORS ==
    {"invalid_json", "chunk_too_big", "data_path_too_big", "offset_too_big",
     "data_size_too_big", "chunk_proof_ratio_not_attractive", "invalid_proof"}

\* __init__ with the defaults of chunk_index, tx_posted, last_response_status
\* and last_response_error
TransactionUploader_init(chunks) ==
    [chunk_index |-> 0, tx_posted |-> FALSE, chunks |-> chunks,
     last_response_status |-> 0, last_response_error |-> ArgStr(""),
     total_errors |-> 0,
     data |-> None]

is_complete(u) == u.tx_posted /\ u.chunk_index = Len(u.chunks)

total_chunks(u) == Len(u.chunks)

\* a request sent: the path, the chunk it carries and what the peer answered
Request(url, index, resp) ==
    [url |-> url, index |-> index, status |-> resp.status, text |-> resp.text]

\* how a call ends: the uploader after it, the exception raised if any, the
\* value returned or the message raised, and the requests sent
Outcome(u, exc, val, sent) == [u |-> u, exc |-> exc, val |-> val, sent |-> sent]

\* raise TransactionUploaderException(message)
RaiseUploaderException(u, message, sent) ==
    Outcome(u, "TransactionUploaderException", [k |-> "message", v |-> message], sent)

PyBool(b) == [k |-> "bool", v |-> b]

\* Transaction.to_dict and Transaction.from_serialized_transaction: the
\* chunks of the transaction go through the dict and come back
Transaction_to_dict(chunks) == [k |-> "dict", v |-> chunks]

Transaction_from_serialized_transaction(d) == d.v

\* json.dumps of a value: the JSON it is written as
JsonValue(x) ==
    IF x.k = "bool" THEN [j |-> IF x.v THEN "true" ELSE "false"]
    ELSE IF x.k = "int" THEN [j |-> "number", v |-> x.v]
    ELSE IF x.k = "str" THEN [j |-> "string", v |-> x.v]
    ELSE [j |-> "object", v |-> x.v]

\* json.loads of a value: the Python value a JSON value is read as
PyValue(y) ==
    IF y.j = "true" THEN PyBool(TRUE)
    ELSE IF y.j = "false" THEN PyBool(FALSE)
    ELSE IF y.j = "number" THEN PyInt(y.v)
    ELSE IF y.j = "string" THEN ArgStr(y.v)
    ELSE [k |-> "dict", v |-> y.v]

\* json.dumps and json.loads of a dict, its items in their order
json_dumps(items) == [i \in 1..Len(items) |-> <<items[i][1], JsonValue(items[i][2])>>]

json_loads(text) == [i \in 1..Len(text) |-> <<text[i][1], PyValue(text[i][2])>>]

\* data[key] for a key the dict holds
DictGet(items, key) == items[CHOOSE i \in 1..Len(items) : items[i][1] = key][2]

\* to_json: the dict literal names "lastResponseError" twice
to_json(u) ==
    json_dumps(DictItems(<< <<"chunkIndex", PyInt(u.chunk_index)>>,
                            <<"transaction", Transaction_to_dict(u.chunks)>>,
                            <<"lastResponseStatus", PyInt(u.last_response_status)>>,
                            <<"lastResponseError", u.last_response_error>>,
                            <<"lastResponseError", PyBool(u.tx_posted)>> >>, <<>>))

\* load_from_json on the uploader v, the dict read from the text given:
\* tx_posted is read from "lastResponseError" as last_response_error is
LoadFrom(v, data) ==
    [v EXCEPT !.chunk_index = DictGet(data, "chunkIndex").v,
              !.chunks = Transaction_from_serialized_transaction(DictGet(data, "transaction")),
              !.last_response_status = DictGet(data, "lastResponseStatus").v,
              !.last_response_error = DictGet(data, "lastResponseError"),
              !.tx_posted = DictGet(data, "lastResponseError").v]

load_from_json(v, data) == LoadFrom(v, json_loads(data))

\* upload_chunk from `if self.last_response_status == 200` on: the chunk
\* counts, or the error is recorded and looked up; json.loads returns no
\* object with an attribute error
ChunkAnswered(u, resp, sent) ==
    IF u.last_response_status = 200
    THEN Outcome([u EXCEPT !.chunk_index = @ + 1], "",
                 [k |-> "data_size", v |-> u.chunks[u.chunk_index + 1]], sent)
    ELSE Outcome([u EXCEPT !.last_response_error = ArgStr(resp.text)], "AttributeError",
                 [k |-> "message", v |-> "error"], sent)

\* upload_chunk from requests.post(url, ...) on, resp being the answer: any
\* status but 200 returns at once
PostChunk(u, resp, sent) ==
    IF resp.status # 200
    THEN Outcome(u, "", [k |-> "status", v |-> -1, error |-> resp.text],
                 Append(sent, Request("chunk", u.chunk_index, resp)))
    ELSE ChunkAnswered([u EXCEPT !.last_response_status = resp.status], resp,
                       Append(sent, Request("chunk", u.chunk_index, resp)))

\* upload_chunk from the second `if self.is_complete` on; chunk_ok is what
\* validate_path answered
AfterPostTransaction(u, chunkresp, chunk_ok, sent) ==
    IF is_complete(u) THEN Outcome(u, "", [k |-> "None"], sent)
    ELSE IF ~chunk_ok THEN RaiseUploaderException(u, "to validate chunk", sent)
    ELSE PostChunk([u EXCEPT !.data = Some(u.chunk_index)], chunkresp, sent)

\* post_transaction, resp being the answer to the POST of /tx
post_transaction(u, resp) ==
    IF total_chunks(u) <= MAX_CHUNKS_IN_BODY
    THEN IF 200 <= resp.status /\ resp.status < 300
         THEN [u |-> [u EXCEPT !.last_response_status = resp.status, !.tx_posted = TRUE,
                               !.chunk_index = MAX_CHUNKS_IN_BODY],
               exc |-> "", sent |-> <<Request("tx", u.chunk_index, resp)>>]
         ELSE [u |-> [u EXCEPT !.last_response_status = resp.status,
                               !.last_response_error = ArgStr(resp.text)],
               exc |-> "TransactionUploaderException",
               sent |-> <<Request("tx", u.chunk_index, resp)>>]
    ELSE IF ~(200 <= resp.status /\ resp.status < 300)
         THEN [u |-> [u EXCEPT !.last_response_status = resp.status,
                               !.last_response_error = ArgStr(resp.text)],
               exc |-> "TransactionUploaderException",
               sent |-> <<Request("tx", u.chunk_index, resp)>>]
         ELSE [u |-> [u EXCEPT !.last_response_status = resp.status, !.tx_posted = TRUE],
               exc |-> "", sent |-> <<Request("tx", u.chunk_index, resp)>>]

\* upload_chunk after post_transaction ended as posted
TransactionPosted(posted, chunkresp, chunk_ok) ==
    IF posted.exc # "" THEN RaiseUploaderException(posted.u, "Unable to upload transaction", posted.sent)
    ELSE AfterPostTransaction(posted.u, chunkresp, chunk_ok, posted.sent)

\* upload_chunk going on to the chunk whether the transaction is posted or not
SendChunk_unposted(u, txresp, chunkresp, chunk_ok) ==
    AfterPostTransaction(u, chunkresp, chunk_ok, <<>>)

\* upload_chunk from `if not self.tx_posted` on
SendChunk(u, txresp, chunkresp, chunk_ok) ==
    IF ~u.tx_posted THEN TransactionPosted(post_transaction(u, txresp), chunkresp, chunk_ok)
    ELSE AfterPostTransaction(u, chunkresp, chunk_ok, <<>>)

\* the count of errors at the head of upload_chunk
CountErrors(u) ==
    IF u.last_response_error # ArgStr("") THEN [u EXCEPT !.total_errors = @ + 1]
    ELSE [u EXCEPT !.total_errors = 0]

\* upload_chunk from `if self.total_errors > 0` on
ErrorsCounted(u, txresp, chunkresp, chunk_ok) ==
    IF u.total_errors > 0 THEN RaiseUploaderException(u, "Unable to complete upload", <<>>)
    ELSE SendChunk([u EXCEPT !.last_response_error = ArgStr("")], txresp, chunkresp, chunk_ok)

ERROR_DELAY == 40000

\* the delay upload_chunk computes once the errors are counted: ERROR_DELAY
\* at least after an error (the clock can only make it longer), else 0
Delay(u) == IF u.last_response_error # ArgStr("") THEN ERROR_DELAY ELSE 0

\* whether upload_chunk on u gets to time.sleep: it has not raised before
\* and the delay is positive
Sleeps(u) ==
    /\ ~is_complete(u)
    /\ CountErrors(u).total_errors = 0
    /\ Delay(CountErrors(u)) > 0

\* upload_chunk without the check of is_complete at its head
upload_chunk_unchecked(u, txresp, chunkresp, chunk_ok) ==
    ErrorsCounted(CountErrors(u), txresp, chunkresp, chunk_ok)

upload_chunk(u, txresp, chunkresp, chunk_ok) ==
    IF is_complete(u) THEN RaiseUploaderException(u, "Upload is already complete", <<>>)
    ELSE ErrorsCounted(CountErrors(u), txresp, chunkresp, chunk_ok)

(***************************************************************************)
(* Inputs                                                                  *)
(***************************************************************************)
NormalTag(i) == create_tag(<<110, i % 256>>, <<118>>)

LongNameTag == create_tag(Fill(MaxTagName + 1, 110), <<118>>)

FullNameTag == create_tag(Fill(MaxTagName, 110), Fill(MaxTagValue, 118))

LongValueTag == create_tag(<<110>>, Fill(MaxTagValue + 1, 118))

EmptyValueTag == create_tag(<<110>>, <<>>)

TagLists ==
    { <<>>,
      <<NormalTag(1), NormalTag(2)>>,
      <<LongNameTag, NormalTag(1)>>,
      <<NormalTag(1), LongNameTag>>,
      <<LongValueTag, NormalTag(1)>>,
      <<NormalTag(1), FullNameTag>>,
      <<EmptyValueTag, NormalTag(1)>>,
      [i \in 1..MaxTags |-> NormalTag(i)],
      [i \in 1..(MaxTags + 1) |-> NormalTag(i)] }

\* the tag lists assigned through the tags setter
SetterTagLists == {<<>>, <<NormalTag(1), NormalTag(2)>>}

Targets == {None, Some(ArgBytes(Fill(32, 7)))}

\* anchors: absent, shorter than 32 bytes, 32 bytes
Anchors == {Some(ArgBytes(<<>>)), Some(ArgBytes(Fill(ShortAnchor, 5))),
            Some(ArgBytes(Fill(32, 5)))}

Payloads == {<<>>, [i \in 1..MaxData |-> 64 + i]}

\* a header that declares no tags and raw_tags_len = 0, followed by a payload
ZeroTagsWire(type) ==
    ToLittle(type, 2) \o Fill(signature_length(type), 3) \o Fill(owner_length(type), 1)
    \o <<0>> \o <<0>> \o ToLittle(0, 8) \o ToLittle(0, 8) \o <<64>>

\* a header whose signature type is not registered
UnknownTypeWire == ToLittle(5, 2) \o Fill(96, 3) \o <<0, 0>> \o ToLittle(0, 8) \o ToLittle(1, 8) \o <<0>>

ReceivedWires == {ZeroTagsWire(2), UnknownTypeWire}

NoRet == [op |-> "", exc |-> "", val |-> <<>>]

(***************************************************************************)
(* Signing and verifying one data item: item is the item, ret the last     *)
(* call made on it and what it returned or raised.                         *)
(***************************************************************************)
\* the arguments a data item is constructed with: every signer, target and
\* anchor with an empty tag list, and every tag list with the default signer
ItemInputs ==
    [signer : BY_TYPE, target : Targets, anchor : Anchors, data : Payloads, tags : {<<>>}]
    \cup [signer : {DEFAULT_SIGNER}, target : {None}, anchor : {Some(ArgBytes(Fill(32, 5)))},
          data : {<<>>}, tags : TagLists]

\* DataItem(header = ANS104DataItemHeader(...), data = ...)
Construct(in) ==
    DataItem_init(Header_init([k |-> "list", v |-> in.tags],
                              ArgBytes(Fill(owner_length(in.signer), 1)),
                              in.target, in.anchor,
                              ArgBytes(Fill(signature_length(in.signer), 0)),
                              in.signer, <<>>),
                  in.data, 2)

InitItem ==
    /\ \E in \in ItemInputs : item = Construct(in)
    /\ wire = None
    /\ parsed = None
    /\ json = None
    /\ ret = NoRet
    /\ bundle = <<>>
    /\ bheader = None
    /\ bwire = None
    /\ bparsed = None
    /\ taglist = <<>> /\ encoded = <<>> /\ decoded = <<>> /\ bpos = <<>>
    /\ block = <<>> /\ blockwire = <<>> /\ blockjson = <<>> /\ blockparsed = <<>>
    /\ wallet = <<>> /\ peer = <<>> /\ uploader = <<>> /\ requests = <<>>

\* item.header.tags = tags
SetTags(tags) ==
    LET r == Header_set_tags(item.header, tags)
    IN /\ item' = [item EXCEPT !.header = r.h]
       /\ ret' = [op |-> "set_tags", exc |-> r.exc, val |-> <<>>]
       /\ UNCHANGED <<wire, json, parsed, bundle, bheader, bwire, bparsed,
                    tagVars, bpos, blockVars, walletVars, uploaderVars>>

\* item.sign(key)
Sign(key) ==
    LET r == DataItem_sign(item, key)
    IN /\ item' = r.d
       /\ ret' = [op |-> "sign", exc |-> r.exc, val |-> <<key, r.id>>]
       /\ UNCHANGED <<wire, json, parsed, bundle, bheader, bwire, bparsed,
                    tagVars, bpos, blockVars, walletVars, uploaderVars>>

\* item.verify()
Verify ==
    LET r == DataItem_verify(item)
    IN /\ ret' = [op |-> "verify", exc |-> r.exc, val |-> r.val]
       /\ UNCHANGED <<item, wire, json, parsed, bundle, bheader, bwire, bparsed,
                    tagVars, bpos, blockVars, walletVars, uploaderVars>>

NextItem ==
    \/ \E tags \in SetterTagLists : SetTags(tags)
    \/ \E key \in Keys : Sign(key)
    \/ Verify

SpecItem == InitItem /\ [][NextItem]_vars

(***************************************************************************)
(* Serializing one data item and parsing it back: wire and json are the    *)
(* last serialization, parsed what the last deserialization returned.      *)
(***************************************************************************)
\* the item is a constructed one, or a constructed one that was signed
InitCodec ==
    /\ \E in \in ItemInputs :
          \/ item = Construct(in)
          \/ /\ SignerImplemented(in.signer)
             /\ \E key \in Keys : item = DataItem_sign(Construct(in), key).d
    /\ wire = None
    /\ parsed = None
    /\ json = None
    /\ ret = NoRet
    /\ bundle = <<>>
    /\ bheader = None
    /\ bwire = None
    /\ bparsed = None
    /\ taglist = <<>> /\ encoded = <<>> /\ decoded = <<>> /\ bpos = <<>>
    /\ block = <<>> /\ blockwire = <<>> /\ blockjson = <<>> /\ blockparsed = <<>>
    /\ wallet = <<>> /\ peer = <<>> /\ uploader = <<>> /\ requests = <<>>

\* wire = item.tobytes()
ToBytes ==
    LET r == DataItem_tobytes(item)
    IN /\ wire' = IF r.exc = "" THEN Some(r.bytes) ELSE None
       /\ ret' = [op |-> "tobytes", exc |-> r.exc, val |-> <<>>]
       /\ json' = None /\ parsed' = None
       /\ UNCHANGED <<item, bundle, bheader, bwire, bparsed,
                    tagVars, bpos, blockVars, walletVars, uploaderVars>>

\* bytes arrive from elsewhere
Receive(w) ==
    /\ wire' = Some(w)
    /\ ret' = [op |-> "receive", exc |-> "", val |-> <<>>]
    /\ json' = None /\ parsed' = None
    /\ UNCHANGED <<item, bundle, bheader, bwire, bparsed,
                    tagVars, bpos, blockVars, walletVars, uploaderVars>>

\* parsed = DataItem.frombytes(wire)
FromBytes ==
    /\ wire # None
    /\ LET r == DataItem_frombytes(wire[1])
       IN /\ parsed' = r.d
          /\ ret' = [op |-> "frombytes", exc |-> r.exc, val |-> <<>>]
    /\ UNCHANGED <<item, wire, json, bundle, bheader, bwire, bparsed,
                    tagVars, bpos, blockVars, walletVars, uploaderVars>>

\* json = item.tojson()
ToJson ==
    LET r == DataItem_tojson(item)
    IN /\ json' = r.json
       /\ ret' = [op |-> "tojson", exc |-> r.exc, val |-> <<>>]
       /\ wire' = None /\ parsed' = None
       /\ UNCHANGED <<item, bundle, bheader, bwire, bparsed,
                    tagVars, bpos, blockVars, walletVars, uploaderVars>>

\* parsed = DataItem.fromjson(json)
FromJson ==
    /\ json # None
    /\ parsed' = Some(DataItem_fromjson(json[1]))
    /\ ret' = [op |-> "fromjson", exc |-> "", val |-> <<>>]
    /\ UNCHANGED <<item, wire, json, bundle, bheader, bwire, bparsed,
                    tagVars, bpos, blockVars, walletVars, uploaderVars>>

\* parsed.tobytes()
ParsedToBytes ==
    /\ parsed # None
    /\ ret' = [op |-> "parsed.tobytes", exc |-> DataItem_tobytes(parsed[1]).exc, val |-> <<>>]
    /\ UNCHANGED <<item, wire, json, parsed, bundle, bheader, bwire, bparsed,
                    tagVars, bpos, blockVars, walletVars, uploaderVars>>

NextCodec ==
    \/ ToBytes
    \/ \E w \in ReceivedWires : Receive(w)
    \/ FromBytes
    \/ ToJson
    \/ FromJson
    \/ ParsedToBytes

SpecCodec == InitCodec /\ [][NextCodec]_vars

(***************************************************************************)
(* A bundle: bundle is the list of data items, bheader the last bundle     *)
(* header obtained, bwire the last serialization of the bundle, bparsed    *)
(* the data items the last Bundle.frombytes returned.                      *)
(***************************************************************************)
\* a received item of signer type 2 with the given signature and payload
BundleItem(sig, data) ==
    DataItem_init(Header_init([k |-> "list", v |-> <<NormalTag(1)>>],
                              ArgBytes(Fill(owner_length(2), 1)),
                              None, Some(ArgBytes(Fill(32, 5))),
                              ArgBytes(Fill(signature_length(2), sig)),
                              2, <<>>),
                  data, 2)

\* two items with different signatures, and one that carries the signature
\* of the first with another payload
BundleItems ==
    {BundleItem(1, <<>>), BundleItem(2, [i \in 1..MaxData |-> 64 + i]), BundleItem(1, <<9>>)}

RECURSIVE SeqsUpTo(_, _)
SeqsUpTo(S, n) ==
    IF n = 0 THEN {<<>>}
    ELSE LET shorter == SeqsUpTo(S, n - 1)
         IN shorter \cup {Append(q, x) : q \in {r \in shorter : Len(r) = n - 1}, x \in S}

InitBundle ==
    /\ bundle \in SeqsUpTo(BundleItems, MaxItems)
    /\ bheader = None
    /\ bwire = None
    /\ bparsed = None
    /\ ret = NoRet
    /\ item = DataItem_init(Header_init([k |-> "bytes", v |-> <<0>>], ArgBytes(<<>>), None,
                                        Some(ArgBytes(<<>>)), ArgBytes(<<>>), DEFAULT_SIGNER,
                                        <<>>),
                            <<>>, 2)
    /\ wire = None
    /\ parsed = None
    /\ json = None
    /\ taglist = <<>> /\ encoded = <<>> /\ decoded = <<>> /\ bpos = <<>>
    /\ block = <<>> /\ blockwire = <<>> /\ blockjson = <<>> /\ blockparsed = <<>>
    /\ wallet = <<>> /\ peer = <<>> /\ uploader = <<>> /\ requests = <<>>

\* bwire = bundle.tobytes()
BundleToBytes ==
    LET r == Bundle_tobytes(bundle)
    IN /\ bwire' = IF r.exc = "" THEN Some(r.bytes) ELSE None
       /\ bparsed' = None
       /\ ret' = [op |-> "bundle.tobytes", exc |-> r.exc, val |-> <<>>]
       /\ UNCHANGED <<item, wire, parsed, json, bundle, bheader,
                    tagVars, bpos, blockVars, walletVars, uploaderVars>>

\* bparsed = Bundle.frombytes(bwire).dataitems
BundleFromBytes ==
    /\ bwire # None
    /\ LET r == Bundle_frombytes(bwire[1])
       IN /\ bparsed' = IF r.exc = "" THEN Some(r.dataitems) ELSE None
          /\ ret' = [op |-> "bundle.frombytes", exc |-> r.exc, val |-> <<>>]
    /\ UNCHANGED <<item, wire, parsed, json, bundle, bheader, bwire,
                    tagVars, bpos, blockVars, walletVars, uploaderVars>>

\* bheader = bundle.header
BundleHeader ==
    /\ bheader' = Some(Bundle_header(bundle))
    /\ ret' = [op |-> "bundle.header", exc |-> "", val |-> <<>>]
    /\ UNCHANGED <<item, wire, parsed, json, bundle, bwire, bparsed,
                    tagVars, bpos, blockVars, walletVars, uploaderVars>>

\* bheader = ANS104BundleHeader([(item.get_len_bytes(), item.header.id) for item in bundle])
HeaderFromList ==
    /\ bheader' = Some([i \in 1..Len(bundle) |->
                          <<DataItem_get_len_bytes(bundle[i]), Header_id(bundle[i].header)>>])
    /\ ret' = [op |-> "header.init", exc |-> "", val |-> <<>>]
    /\ UNCHANGED <<item, wire, parsed, json, bundle, bwire, bparsed,
                    tagVars, bpos, blockVars, walletVars, uploaderVars>>

\* bheader = ANS104BundleHeader.frombytes(bwire)
HeaderFromBytes ==
    /\ bwire # None
    /\ bheader' = Some(BundleHeader_fromstream(bwire[1], 0).pairs)
    /\ ret' = [op |-> "header.frombytes", exc |-> "", val |-> <<>>]
    /\ UNCHANGED <<item, wire, parsed, json, bundle, bwire, bparsed,
                    tagVars, bpos, blockVars, walletVars, uploaderVars>>

\* bheader.get_offset(id) with the id of the k-th pair
GetOffset(k) ==
    /\ bheader # None
    /\ k \in 1..Len(bheader[1])
    /\ ret' = [op |-> "get_offset", exc |-> "",
               val |-> <<k, BundleHeader_get_offset(bheader[1], bheader[1][k][2])>>]
    /\ UNCHANGED <<item, wire, parsed, json, bundle, bheader, bwire, bparsed,
                    tagVars, bpos, blockVars, walletVars, uploaderVars>>

\* bheader.get_range(id) with the id of the k-th pair
GetRange(k) ==
    /\ bheader # None
    /\ k \in 1..Len(bheader[1])
    /\ ret' = [op |-> "get_range", exc |-> "",
               val |-> <<k, BundleHeader_get_range(bheader[1], bheader[1][k][2])[1]>>]
    /\ UNCHANGED <<item, wire, parsed, json, bundle, bheader, bwire, bparsed,
                    tagVars, bpos, blockVars, walletVars, uploaderVars>>

NextBundle ==
    \/ BundleToBytes
    \/ BundleFromBytes
    \/ BundleHeader
    \/ HeaderFromList
    \/ HeaderFromBytes
    \/ \E k \in 1..MaxItems : GetOffset(k)
    \/ \E k \in 1..MaxItems : GetRange(k)

SpecBundle == InitBundle /\ [][NextBundle]_vars

(***************************************************************************)
(* The tag codec on its own: taglist is a list of tags, encoded what       *)
(* tagstobytes made of it, decoded what tagsfromstream read back.          *)
(***************************************************************************)
\* names and values: empty, one byte, two bytes with the high bit set, and
\* 64 bytes, the first length whose varint takes two bytes
CodecStrings == {<<>>, <<1>>, <<200, 0>>, Fill(64, 7)}

ShortTags == {create_tag(n, v) : n \in CodecStrings, v \in CodecStrings}

CodecTagLists == SeqsUpTo(ShortTags, MaxCodecTags) \cup TagLists

InitTagCodec ==
    /\ taglist \in CodecTagLists
    /\ encoded = None
    /\ decoded = None
    /\ ret = NoRet
    /\ item = <<>> /\ wire = <<>> /\ parsed = <<>> /\ json = <<>>
    /\ bundle = <<>> /\ bheader = <<>> /\ bwire = <<>> /\ bparsed = <<>> /\ bpos = <<>>
    /\ block = <<>> /\ blockwire = <<>> /\ blockjson = <<>> /\ blockparsed = <<>>
    /\ wallet = <<>> /\ peer = <<>> /\ uploader = <<>> /\ requests = <<>>

\* encoded = ANS104DataItemHeader.tagstobytes(taglist)
EncodeTags ==
    /\ encoded' = Some(tagstobytes(taglist))
    /\ decoded' = None
    /\ ret' = [op |-> "tagstobytes", exc |-> "", val |-> <<>>]
    /\ UNCHANGED <<taglist, itemVars, bundleVars, blockVars, walletVars, uploaderVars>>

\* decoded = ANS104DataItemHeader.tagsfromstream(io.BytesIO(encoded))
DecodeTags ==
    /\ encoded # None
    /\ decoded' = Some(tagsfromstream(encoded[1]))
    /\ ret' = [op |-> "tagsfromstream", exc |-> tagsfromstream(encoded[1]).exc, val |-> <<>>]
    /\ UNCHANGED <<taglist, encoded, itemVars, bundleVars, blockVars, walletVars, uploaderVars>>

NextTags ==
    \/ EncodeTags
    \/ DecodeTags

SpecTags == InitTagCodec /\ [][NextTags]_vars

(***************************************************************************)
(* Parsing received bytes: wire is the serialization of item with at most  *)
(* one byte of its header overwritten, parsed what DataItem.frombytes      *)
(* returned for it.                                                        *)
(***************************************************************************)
\* residual bytes after the terminator of the tags
Cruft == <<9>>

\* the raw_tags of the serialized items: zero, one or two tags, with and
\* without residual bytes after them
ParseRawTags ==
    {tagstobytes(t) \o c : t \in {<<>>, <<NormalTag(1)>>, <<NormalTag(1), NormalTag(2)>>},
                           c \in {<<>>, Cruft}}

ParseInputs ==
    [signer : {1, 2}, target : Targets,
     anchor : {Some(ArgBytes(<<>>)), Some(ArgBytes(Fill(32, 5)))},
     data : Payloads, raw_tags : ParseRawTags]

\* DataItem(header = ANS104DataItemHeader(tags = raw_tags, ...), data = ...)
ConstructRaw(in) ==
    DataItem_init(Header_init([k |-> "bytes", v |-> in.raw_tags],
                              ArgBytes(Fill(owner_length(in.signer), 1)),
                              in.target, in.anchor,
                              ArgBytes(Fill(signature_length(in.signer), 3)),
                              in.signer, <<>>),
                  in.data, 2)

\* the fields of the header of which one byte is overwritten
HeaderFields == {"signature_type", "target_flag", "anchor_flag", "tags_len", "raw_tags_len"}

\* where tobytes puts the first byte of a field of the header h
FieldOffset(h, field) ==
    CASE field = "signature_type" -> 1
      [] field = "target_flag" -> 2 + signature_length(h.signer) + owner_length(h.signer) + 1
      [] field = "anchor_flag" ->
             2 + signature_length(h.signer) + owner_length(h.signer) + 1
               + (IF h.target # None THEN 32 ELSE 0) + 1
      [] field = "tags_len" ->
             2 + signature_length(h.signer) + owner_length(h.signer) + 1
               + (IF h.target # None THEN 32 ELSE 0) + 1
               + (IF h.anchor # None THEN 32 ELSE 0) + 1
      [] field = "raw_tags_len" ->
             2 + signature_length(h.signer) + owner_length(h.signer) + 1
               + (IF h.target # None THEN 32 ELSE 0) + 1
               + (IF h.anchor # None THEN 32 ELSE 0) + 9

InitParse ==
    /\ \E in \in ParseInputs :
          /\ item = ConstructRaw(in)
          /\ wire = Some(DataItem_tobytes(ConstructRaw(in)).bytes)
    /\ parsed = None
    /\ json = None
    /\ ret = NoRet
    /\ bundle = <<>> /\ bheader = <<>> /\ bwire = <<>> /\ bparsed = <<>> /\ bpos = <<>>
    /\ taglist = <<>> /\ encoded = <<>> /\ decoded = <<>>
    /\ block = <<>> /\ blockwire = <<>> /\ blockjson = <<>> /\ blockparsed = <<>>
    /\ wallet = <<>> /\ peer = <<>> /\ uploader = <<>> /\ requests = <<>>

\* the bytes arrive with one byte of the header changed; a flag is not turned
\* from 0 into 1 or back and a signature type not into another registered
\* one, which would make the bytes those of a header of another layout
SetByte(field, v) ==
    /\ ret.op = ""
    /\ field = "signature_type" => (v \notin BY_TYPE \/ v = item.header.signer)
    /\ field \in {"target_flag", "anchor_flag"} =>
          (v \notin {0, 1} \/ v = wire[1][FieldOffset(item.header, field)])
    /\ wire' = Some([wire[1] EXCEPT ![FieldOffset(item.header, field)] = v])
    /\ ret' = [op |-> "receive", exc |-> "", val |-> <<>>]
    /\ UNCHANGED <<item, parsed, json, bundleVars, tagVars, blockVars, walletVars,
                   uploaderVars>>

NextParse ==
    \/ \E field \in HeaderFields, v \in 0..MaxByteValue : SetByte(field, v)
    \/ FromBytes

SpecParse == InitParse /\ [][NextParse]_vars

(***************************************************************************)
(* Reading a bundle from a stream item by item, as                         *)
(* DataItem.all_from_tags_stream and Bundle.fromstream do: bwire is the    *)
(* stream, bpos its position, bheader the index once it was read, bparsed  *)
(* the items read so far.                                                  *)
(***************************************************************************)
\* the length the index declares for an item: its own, or one less than the
\* length of its header
DeclaredLength(d, short) ==
    IF short THEN Header_get_len_bytes(d.header) - 1 ELSE DataItem_get_len_bytes(d)

\* the index written in front of the items
DeclaredPairs(items, shorts) ==
    [i \in 1..Len(items) |-> <<DeclaredLength(items[i], i \in shorts), Header_id(items[i].header)>>]

InitStream ==
    /\ bundle \in SeqsUpTo(BundleItems, MaxItems)
    /\ \E shorts \in SUBSET (1..Len(bundle)) :
          bwire = Some(BundleHeader_tobytes(DeclaredPairs(bundle, shorts))
                       \o Concat([i \in 1..Len(bundle) |-> DataItem_tobytes(bundle[i]).bytes]))
    /\ bheader = None
    /\ bparsed = Some(<<>>)
    /\ bpos = 0
    /\ ret = NoRet
    /\ item = <<>> /\ wire = <<>> /\ parsed = <<>> /\ json = <<>>
    /\ taglist = <<>> /\ encoded = <<>> /\ decoded = <<>>
    /\ block = <<>> /\ blockwire = <<>> /\ blockjson = <<>> /\ blockparsed = <<>>
    /\ wallet = <<>> /\ peer = <<>> /\ uploader = <<>> /\ requests = <<>>

\* header = ANS104BundleHeader.fromstream(stream)
StreamReadHeader ==
    /\ bheader = None
    /\ bheader' = Some(BundleHeader_fromstream(bwire[1], bpos).pairs)
    /\ bpos' = BundleHeader_fromstream(bwire[1], bpos).pos
    /\ ret' = [op |-> "header.fromstream", exc |-> "", val |-> <<>>]
    /\ UNCHANGED <<bundle, bwire, bparsed, itemVars, tagVars, blockVars, walletVars,
                   uploaderVars>>

\* the k-th DataItem.fromstream(stream, length) has returned or raised r
StreamItemRead(k, r) ==
    /\ bparsed' = IF r.exc = "" THEN Some(Append(bparsed[1], r.d[1])) ELSE bparsed
    /\ bpos' = r.pos
    /\ ret' = [op |-> "item.fromstream", exc |-> r.exc, val |-> <<k, bpos, r.pos>>]
    /\ UNCHANGED <<bundle, bwire, bheader, itemVars, tagVars, blockVars, walletVars,
                   uploaderVars>>

\* the next pass of `for length, id in header.length_id_pairs`
StreamReadItem ==
    /\ bheader # None
    /\ ret.exc = ""
    /\ Len(bparsed[1]) < Len(bheader[1])
    /\ StreamItemRead(Len(bparsed[1]) + 1,
                      DataItem_fromstream(bwire[1], bpos,
                                          Some(bheader[1][Len(bparsed[1]) + 1][1])))

NextStream ==
    \/ StreamReadHeader
    \/ StreamReadItem

SpecStream == InitStream /\ [][NextStream]_vars

(***************************************************************************)
(* A block: block is the block, blockwire what tobytes last made of it,    *)
(* blockjson a block JSON received, blockparsed the block the last         *)
(* frombytes or fromjson returned and which of the two it was.             *)
(***************************************************************************)
\* the transactions a block may hold
BlockTxs == {Transaction(<<1>>), Transaction(<<2, 3>>)}

\* heights on both sides of each fork
BlockHeights == {0, FORK_2_4 - 1, FORK_2_4, FORK_2_5}

\* a timestamp of no byte and one of two bytes
BlockTimestamps == {0, 300}

BlockTagLists == {<<>>, <<<<5, 6>>>>}

\* the arguments of Block(...) for a block built from bytes
BlockKw(height, timestamp, tags, txs) ==
    [indep_hash |-> ArgBytes(Fill(48, 9)), prev_block |-> ArgBytes(<<1, 2>>),
     timestamp |-> PyInt(timestamp), nonce |-> ArgBytes(<<3>>), height |-> PyInt(height),
     diff |-> PyInt(115), cumulative_diff |-> PyInt(70000), last_retarget |-> PyInt(299),
     hash |-> ArgBytes(<<4, 5, 6>>), block_size |-> PyInt(0), weave_size |-> PyInt(256),
     reward_addr |-> ArgBytes(<<7>>), tx_root |-> ArgBytes(<<>>),
     wallet_list |-> ArgBytes(<<8, 9>>), hash_list_merkle |-> ArgBytes(<<10>>),
     reward_pool |-> PyInt(12), packing_threshold |-> PyInt(1),
     strict_chunk_threshold |-> PyInt(255),
     usd_to_ar_rate |-> [k |-> "pair", v |-> <<PyInt(1), PyInt(10)>>],
     scheduled_usd_to_ar_rate |-> [k |-> "pair", v |-> <<PyInt(2), PyInt(25)>>],
     poa_option |-> PyInt(1), poa_chunk |-> ArgBytes(<<11, 12, 13>>),
     poa_tx_path |-> ArgBytes(<<14>>), poa_data_path |-> ArgBytes(<<15, 16>>),
     tags |-> tags, txs |-> txs]

\* a block JSON of the upstream shape: timestamp, last_retarget and height
\* are numbers, the other integers strings of digits ("115" is 49 49 53)
BlockJson(height, timestamp, tags, txs) ==
    [usd_to_ar_rate |-> <<ArgStr(<<49>>), ArgStr(<<49, 48>>)>>,
     scheduled_usd_to_ar_rate |-> <<ArgStr(<<50>>), ArgStr(<<50, 53>>)>>,
     packing_2_5_threshold |-> ArgStr(<<49>>),
     strict_data_split_threshold |-> ArgStr(<<50, 53, 53>>),
     nonce |-> b64enc(<<3>>),
     previous_block |-> b64enc(<<1, 2>>),
     timestamp |-> PyInt(timestamp),
     last_retarget |-> PyInt(299),
     diff |-> ArgStr(<<49, 49, 53>>),
     height |-> PyInt(height),
     hash |-> b64enc(<<4, 5, 6>>),
     indep_hash |-> b64enc(Fill(48, 9)),
     txs |-> [i \in 1..Len(txs) |-> txs[i].id],
     tx_root |-> b64enc(<<>>),
     wallet_list |-> b64enc(<<8, 9>>),
     reward_addr |-> b64enc(<<7>>),
     tags |-> tags,
     reward_pool |-> ArgStr(<<49, 50>>),
     weave_size |-> ArgStr(<<50, 53, 54>>),
     block_size |-> ArgStr(<<48>>),
     cumulative_diff |-> ArgStr(<<55, 48, 48, 48, 48>>),
     hash_list_merkle |-> b64enc(<<10>>),
     poa |-> [option |-> ArgStr(<<49>>), tx_path |-> b64enc(<<14>>),
              data_path |-> b64enc(<<15, 16>>), chunk |-> b64enc(<<11, 12, 13>>)]]

InitBlock ==
    /\ \E height \in BlockHeights, timestamp \in BlockTimestamps, tags \in BlockTagLists,
          txs \in SeqsUpTo(BlockTxs, MaxTxs) :
          /\ block = Block_init(BlockKw(height, timestamp, tags, txs))
          /\ blockjson = Some(BlockJson(height, timestamp, tags, txs))
    /\ blockwire = None
    /\ blockparsed = None
    /\ ret = NoRet
    /\ item = <<>> /\ wire = <<>> /\ parsed = <<>> /\ json = <<>>
    /\ bundle = <<>> /\ bheader = <<>> /\ bwire = <<>> /\ bparsed = <<>> /\ bpos = <<>>
    /\ taglist = <<>> /\ encoded = <<>> /\ decoded = <<>>
    /\ wallet = <<>> /\ peer = <<>> /\ uploader = <<>> /\ requests = <<>>

\* blockwire = block.tobytes()
BlockToBytes ==
    /\ blockwire' = Some(Block_tobytes(block))
    /\ ret' = [op |-> "tobytes", exc |-> "", val |-> <<>>]
    /\ UNCHANGED <<block, blockjson, blockparsed, itemVars, bundleVars, tagVars, walletVars,
                   uploaderVars>>

\* blockparsed = Block.frombytes(blockwire)
BlockFromBytes ==
    /\ blockwire # None
    /\ blockparsed' = Some([from |-> "bytes", b |-> Block_frombytes(blockwire[1])])
    /\ ret' = [op |-> "frombytes", exc |-> "", val |-> <<>>]
    /\ UNCHANGED <<block, blockwire, blockjson, itemVars, bundleVars, tagVars, walletVars,
                   uploaderVars>>

\* blockparsed = Block.fromjson(blockjson)
BlockFromJson ==
    /\ blockparsed' = Some([from |-> "json", b |-> Block_fromjson(blockjson[1]).block])
    /\ blockjson' = Some(Block_fromjson(blockjson[1]).data)
    /\ ret' = [op |-> "fromjson", exc |-> "", val |-> <<>>]
    /\ UNCHANGED <<block, blockwire, itemVars, bundleVars, tagVars, walletVars, uploaderVars>>

\* blockparsed.tojson()
ParsedToJson ==
    /\ blockparsed # None
    /\ ret' = [op |-> "parsed.tojson", exc |-> "", val |-> Some(Block_tojson(blockparsed[1].b))]
    /\ UNCHANGED <<blockVars, itemVars, bundleVars, tagVars, walletVars, uploaderVars>>

\* what is kept of a call of _get_data_segment that returned or raised r
SegmentReturned(r) == [op |-> "data_segment", exc |-> r.exc, val |-> r.val]

\* block._get_data_segment()
BlockDataSegment ==
    /\ ret' = SegmentReturned(Block_get_data_segment(block))
    /\ UNCHANGED <<blockVars, itemVars, bundleVars, tagVars, walletVars, uploaderVars>>

NextBlockSpec ==
    \/ BlockToBytes
    \/ BlockFromBytes
    \/ BlockFromJson
    \/ ParsedToJson
    \/ BlockDataSegment

SpecBlock == InitBlock /\ [][NextBlockSpec]_vars

(***************************************************************************)
(* A wallet asking its peer for anchors while the peer moves on            *)
(***************************************************************************)
PeerAnchors == {<<1>>, <<2>>, <<3>>}

InitWallet ==
    /\ wallet = [last_tx |-> None]
    /\ peer \in [anchor : PeerAnchors, served : {<<>>}]
    /\ ret = NoRet
    /\ item = <<>> /\ wire = <<>> /\ parsed = <<>> /\ json = <<>>
    /\ bundle = <<>> /\ bheader = <<>> /\ bwire = <<>> /\ bparsed = <<>> /\ bpos = <<>>
    /\ taglist = <<>> /\ encoded = <<>> /\ decoded = <<>>
    /\ block = <<>> /\ blockwire = <<>> /\ blockjson = <<>> /\ blockparsed = <<>>
    /\ uploader = <<>> /\ requests = <<>>

\* the peer hands out another anchor from now on
PeerAdvance ==
    /\ \E a \in PeerAnchors \ {peer.anchor} : peer' = [peer EXCEPT !.anchor = a]
    /\ UNCHANGED <<wallet, ret, itemVars, bundleVars, tagVars, blockVars, uploaderVars>>

\* wallet.get_last_transaction_id() has returned r.val
LastTransactionIdReturned(r) ==
    /\ wallet' = r.wallet
    /\ ret' = [op |-> "get_last_transaction_id", exc |-> "", val |-> r.val]
    /\ peer' = [peer EXCEPT !.served = Append(peer.served, Peer_tx_anchor(peer))]
    /\ UNCHANGED <<itemVars, bundleVars, tagVars, blockVars, uploaderVars>>

GetLastTransactionId ==
    /\ Len(peer.served) < MaxCalls
    /\ LastTransactionIdReturned(Wallet_get_last_transaction_id(wallet, peer))

NextWallet ==
    \/ PeerAdvance
    \/ GetLastTransactionId

SpecWallet == InitWallet /\ [][NextWallet]_vars

(***************************************************************************)
(* An upload: uploader is the TransactionUploader, requests every request  *)
(* sent so far with the answer of the peer; ret.val holds how many         *)
(* requests the last call sent, whether it slept and what it returned.     *)
(***************************************************************************)
\* answers of the peer: two successes, a fatal error, a passing one and an
\* error with an empty body
Responses ==
    {[status |-> 200, text |-> "OK"], [status |-> 202, text |-> "Accepted"],
     [status |-> 400, text |-> "invalid_proof"], [status |-> 503, text |-> "timeout"],
     [status |-> 502, text |-> ""]}

InitUploader ==
    /\ \E n \in 1..MaxChunks : uploader = TransactionUploader_init([i \in 1..n |-> 4 - i])
    /\ requests = <<>>
    /\ ret = NoRet
    /\ item = <<>> /\ wire = <<>> /\ parsed = <<>> /\ json = <<>>
    /\ bundle = <<>> /\ bheader = <<>> /\ bwire = <<>> /\ bparsed = <<>> /\ bpos = <<>>
    /\ taglist = <<>> /\ encoded = <<>> /\ decoded = <<>>
    /\ block = <<>> /\ blockwire = <<>> /\ blockjson = <<>> /\ blockparsed = <<>>
    /\ wallet = <<>> /\ peer = <<>>

\* uploader.upload_chunk() has ended as r
UploadChunkDone(r) ==
    /\ uploader' = r.u
    /\ requests' = requests \o r.sent
    /\ ret' = [op |-> "upload_chunk", exc |-> r.exc,
               val |-> [sent |-> Len(r.sent), out |-> r.val,
                        slept |-> Sleeps(uploader)]]
    /\ UNCHANGED <<itemVars, bundleVars, tagVars, blockVars, walletVars>>

UploadChunk ==
    /\ Len(requests) < MaxRequests
    /\ uploader.total_errors < MaxErrors
    /\ \E txresp \in Responses, chunkresp \in Responses, chunk_ok \in BOOLEAN :
          UploadChunkDone(upload_chunk(uploader, txresp, chunkresp, chunk_ok))

NextUploader == UploadChunk

(***************************************************************************)
(* An upload saved with to_json and resumed with load_from_json on a new   *)
(* uploader of the same transaction.  json is the text saved; ret keeps    *)
(* the uploader the text was made of.                                      *)
(***************************************************************************)
UploaderToJson ==
    /\ ret.op # "to_json"
    /\ json' = Some(to_json(uploader))
    /\ ret' = [op |-> "to_json", exc |-> "", val |-> [u |-> uploader]]
    /\ UNCHANGED <<item, wire, parsed, bundleVars, tagVars, blockVars, walletVars,
                   uploaderVars>>

\* TransactionUploader(transaction = ...).load_from_json(text), on the text
\* the last call returned
UploaderLoadFromJson ==
    /\ ret.op = "to_json"
    /\ uploader' = load_from_json(TransactionUploader_init(uploader.chunks), json[1])
    /\ ret' = [op |-> "load_from_json", exc |-> "", val |-> [u |-> ret.val.u]]
    /\ UNCHANGED <<itemVars, bundleVars, tagVars, blockVars, walletVars, requests>>

NextResume == UploadChunk \/ UploaderToJson \/ UploaderLoadFromJson

SpecResume == InitUploader /\ [][NextResume]_vars

SpecUploader == InitUploader /\ [][NextUploader]_vars

(***************************************************************************)
(* A header with residual bytes after its tags: wire is the serialization  *)
(* of item, parsed what DataItem.frombytes returned for it and what the    *)
(* assignments made to its header since then have left of it.              *)
(***************************************************************************)
\* raw_tags of no tag and of one tag, followed by no residual byte, by one,
\* and by two of which the first reads as a terminator
ResidualRawTags ==
    {tagstobytes(t) \o c : t \in {<<>>, <<NormalTag(1)>>}, c \in {<<>>, Cruft, <<0, 9>>}}

ResidualInputs ==
    [signer : {1, 2}, target : Targets,
     anchor : {Some(ArgBytes(<<>>)), Some(ArgBytes(Fill(32, 5)))},
     data : Payloads, raw_tags : ResidualRawTags]

\* the tag lists and the residual bytes assigned
AssignedTagLists == {<<>>, <<NormalTag(2)>>}

AssignedExtras == {<<>>, <<7>>}

InitResidual ==
    /\ \E in \in ResidualInputs :
          /\ item = ConstructRaw(in)
          /\ wire = Some(DataItem_tobytes(ConstructRaw(in)).bytes)
    /\ parsed = None
    /\ json = None
    /\ ret = NoRet
    /\ bundle = <<>> /\ bheader = <<>> /\ bwire = <<>> /\ bparsed = <<>> /\ bpos = <<>>
    /\ taglist = <<>> /\ encoded = <<>> /\ decoded = <<>>
    /\ block = <<>> /\ blockwire = <<>> /\ blockjson = <<>> /\ blockparsed = <<>>
    /\ wallet = <<>> /\ peer = <<>> /\ uploader = <<>> /\ requests = <<>>

\* an assignment to the header of parsed has ended as r; ret.val keeps what
\* was assigned and the header before the assignment
HeaderAssigned(op, value, r) ==
    /\ parsed' = Some([parsed[1] EXCEPT !.header = r.h])
    /\ ret' = [op |-> op, exc |-> r.exc, val |-> [value |-> value, before |-> parsed[1].header]]
    /\ UNCHANGED <<item, wire, json, bundleVars, tagVars, blockVars, walletVars, uploaderVars>>

\* parsed.header.tags = tags
ParsedSetTags(tags) ==
    /\ parsed # None
    /\ Len(parsed[1].header.raw_tags) <= MaxRawTags
    /\ HeaderAssigned("parsed.set_tags", tags, Header_set_tags(parsed[1].header, tags))

\* parsed.header.extra_tags_data = extra_tags_data
ParsedSetExtra(extra_tags_data) ==
    /\ parsed # None
    /\ Len(parsed[1].header.raw_tags) <= MaxRawTags
    /\ HeaderAssigned("parsed.set_extra", extra_tags_data,
                      Header_set_extra_tags_data(parsed[1].header, extra_tags_data))

\* what is kept of parsed.tobytes() that returned or raised r
Reemitted(r) == [op |-> "parsed.tobytes", exc |-> r.exc, val |-> r.bytes]

\* parsed.tobytes()
ParsedReemit ==
    /\ parsed # None
    /\ ret' = Reemitted(DataItem_tobytes(parsed[1]))
    /\ UNCHANGED <<itemVars, bundleVars, tagVars, blockVars, walletVars, uploaderVars>>

NextResidual ==
    \/ FromBytes
    \/ \E tags \in AssignedTagLists : ParsedSetTags(tags)
    \/ \E extra_tags_data \in AssignedExtras : ParsedSetExtra(extra_tags_data)
    \/ ParsedReemit

SpecResidual == InitResidual /\ [][NextResidual]_vars

(***************************************************************************)
(* Properties of the data item codec (SpecCodec)                           *)
(***************************************************************************)
WellFormedTag(tag) ==
    /\ Len(tag.name) > 0 /\ Len(tag.name) <= MaxTagName
    /\ Len(tag.value) > 0 /\ Len(tag.value) <= MaxTagValue

\* the fields of a data item are valid (spec 3, DataItemHeader invariants)
ValidFields(d) ==
    LET h == d.header
        tags == Header_tags(h)
    IN /\ h.signer \in BY_TYPE
       /\ Len(h.raw_signature) = signature_length(h.signer)
       /\ Len(h.raw_owner) = owner_length(h.signer)
       /\ h.target = None \/ Len(Header_raw_target(h)) = 32
       /\ h.anchor = None \/ Len(Header_raw_anchor(h)) <= MaxAnchor
       /\ tags.exc = ""
       /\ Len(tags.tags) <= MaxTags
       /\ \A i \in 1..Len(tags.tags) : WellFormedTag(tags.tags[i])

\* parsed is what DataItem.frombytes(item.tobytes()) returned
BinaryRoundTripDone ==
    /\ ret.op = "frombytes"
    /\ DataItem_tobytes(item).exc = ""
    /\ wire = Some(DataItem_tobytes(item).bytes)

\* C1: for every data item d with valid fields, DataItem.frombytes(d.tobytes())
\* returns an item with the same signature type, raw_signature, raw_owner,
\* target, anchor, raw_tags and data as d.
C1_BinaryRoundTrip ==
    (BinaryRoundTripDone /\ ValidFields(item)) =>
        /\ ret.exc = ""
        /\ parsed # None
        /\ Header_signature_type(parsed[1].header) = Header_signature_type(item.header)
        /\ parsed[1].header.raw_signature = item.header.raw_signature
        /\ parsed[1].header.raw_owner = item.header.raw_owner
        /\ parsed[1].header.target = item.header.target
        /\ parsed[1].header.anchor = item.header.anchor
        /\ parsed[1].header.raw_tags = item.header.raw_tags
        /\ parsed[1].data = item.data

\* parsed is what DataItem.fromjson(item.tojson()) returned
JsonRoundTripDone ==
    /\ ret.op = "fromjson"
    /\ DataItem_tojson(item).exc = ""
    /\ json = DataItem_tojson(item).json
    /\ parsed # None

\* the fields the JSON form of a data item carries are the same in a and b
SameJsonFields(a, b) ==
    /\ Header_owner(a.header) = Header_owner(b.header)
    /\ a.header.target = b.header.target
    /\ a.header.anchor = b.header.anchor
    /\ Header_tags(a.header) = Header_tags(b.header)
    /\ Header_signature(a.header) = Header_signature(b.header)
    /\ Header_id(a.header) = Header_id(b.header)
    /\ a.data = b.data

\* C2 as stated: for every data item d with valid fields, DataItem.fromjson(d.tojson())
\* has the same owner, target, anchor, tags, signature, id and data as d, and
\* also the same version and signature type, so that get_raw_signature_data()
\* and verify() give the same as for d.
C2_JsonRoundTripFull ==
    (JsonRoundTripDone /\ ValidFields(item)) =>
        /\ SameJsonFields(parsed[1], item)
        /\ parsed[1].version = item.version
        /\ Header_signature_type(parsed[1].header) = Header_signature_type(item.header)
        /\ DataItem_get_raw_signature_data(parsed[1]) = DataItem_get_raw_signature_data(item)
        /\ DataItem_verify(parsed[1]) = DataItem_verify(item)

\* C2 amended: for every data item d with valid fields, DataItem.fromjson(d.tojson())
\* has the same owner, target, anchor, tags, signature, id and data as d; its
\* version is 1 and its signature type is that of the default signer,
\* whatever those of d are.
C2_JsonRoundTrip ==
    (JsonRoundTripDone /\ ValidFields(item)) =>
        /\ SameJsonFields(parsed[1], item)
        /\ parsed[1].version = 1
        /\ Header_signature_type(parsed[1].header) = DEFAULT_SIGNER

\* a signed item of version 2 with a target, an anchor and tags went through JSON
C2_Witness ==
    /\ JsonRoundTripDone
    /\ ValidFields(item)
    /\ item.version = 2
    /\ item.header.target # None
    /\ item.header.anchor # None
    /\ item.header.raw_owner \in {Arweave_raw_owner(k) : k \in Keys}

\* a second witness of C2: an item with tags and a signer other than the default
C2_WitnessTags ==
    /\ JsonRoundTripDone
    /\ ValidFields(item)
    /\ Len(Header_tags(item.header).tags) = MaxTags

\* the headers at hand: the one of the item and the one fromstream returned
HeadersAtHand ==
    {item.header} \cup (IF parsed # None /\ json = None THEN {parsed[1].header} ELSE {})

\* C6: for every header h, built by the constructor or returned by fromstream
\* (also from bytes that declare raw_tags_len = 0), h.tobytes() succeeds and
\* len(h.tobytes()) = h.get_len_bytes() = 2 + signature_length + owner_length
\* + (1 or 33) + (1 or 33) + 16 + len(raw_tags).
C6_HeaderLength ==
    \A h \in HeadersAtHand :
        /\ Header_tobytes(h).exc = ""
        /\ Len(Header_tobytes(h).bytes) = Header_get_len_bytes(h)
        /\ Header_get_len_bytes(h) =
             2 + signature_length(h.signer) + owner_length(h.signer)
               + (IF h.target = None THEN 1 ELSE 33)
               + (IF h.anchor = None THEN 1 ELSE 33)
               + 16 + Len(h.raw_tags)

(***************************************************************************)
(* Properties of signing and verifying (SpecItem)                          *)
(***************************************************************************)
\* C7: sign(key) sets raw_owner to signer.raw_owner(key) before it computes
\* the signing input, so the signature covers the new owner; raw_signature
\* is signer.sign(key, signing input); the id returned is the base64url of
\* SHA-256(raw_signature); target, anchor, raw_tags and data are unchanged,
\* also when the item was signed before with another key.
C7_SignOrder ==
    /\ []((ret.op = "sign" /\ ret.exc = "") =>
            /\ item.header.raw_owner = Arweave_raw_owner(ret.val[1])
            /\ item.header.raw_signature =
                  Arweave_sign(ret.val[1], DataItem_get_raw_signature_data(item).val)
            /\ ret.val[2] = b64enc(SHA256(item.header.raw_signature))
            /\ Header_raw_id(item.header) = SHA256(item.header.raw_signature))
    /\ [][ret'.op = "sign" =>
            /\ item'.header.target = item.header.target
            /\ item'.header.anchor = item.header.anchor
            /\ item'.header.raw_tags = item.header.raw_tags
            /\ item'.data = item.data]_vars

\* a signed item that verifies: its owner is the one of the last key
C7_Witness ==
    /\ ret.op = "verify"
    /\ ret.exc = ""
    /\ ret.val = TRUE
    /\ item.header.raw_owner = Arweave_raw_owner(MaxKey)
    /\ item.header.target # None
    /\ item.data # <<>>

\* C8: verify() always returns a boolean and never raises, whatever the tag
\* list (the empty one included), the signer type among 1, 2, 3, 4 and the
\* signature bytes.
C8_VerifyNeverRaises ==
    ret.op = "verify" => ret.exc = ""

IllFormedTag(tag) ==
    \/ Len(tag.name) = 0 \/ Len(tag.value) = 0
    \/ Len(tag.name) > MaxTagName \/ Len(tag.value) > MaxTagValue

\* C9: verify() returns False whenever any tag, at any position of the tag
\* list, has an empty name or value, a name longer than 1024 bytes or a
\* value longer than 3072 bytes.
C9_EveryTagChecked ==
    (/\ ret.op = "verify"
     /\ Header_tags(item.header).exc = ""
     /\ \E i \in 1..Len(Header_tags(item.header).tags) :
           IllFormedTag(Header_tags(item.header).tags[i]))
    => (ret.exc = "" /\ ret.val = FALSE)

\* C10: verify() does not reject an item with exactly 128 well-formed tags
\* for its tag count: it returns what the signature check returns; with 129
\* tags or more it returns False whatever the signature.
C10_TagCountBoundary ==
    LET tags == Header_tags(item.header)
    IN (ret.op = "verify" /\ tags.exc = "") =>
         /\ Len(tags.tags) >= MaxTags + 1 => (ret.exc = "" /\ ret.val = FALSE)
         /\ (/\ Len(tags.tags) = MaxTags
             /\ \A i \in 1..Len(tags.tags) : WellFormedTag(tags.tags[i])
             /\ Len(Header_raw_anchor(item.header)) <= MaxAnchor
             /\ SignerImplemented(item.header.signer)
             /\ Arweave_public_key(item.header.raw_owner).exc = "")
            => /\ ret.exc = ""
               /\ ret.val = Arweave_verify(Arweave_public_key(item.header.raw_owner),
                                           DataItem_get_raw_signature_data(item).val,
                                           item.header.raw_signature)

\* an item with exactly 128 tags was signed and verify returned True
C10_Witness ==
    /\ ret.op = "verify"
    /\ ret.exc = ""
    /\ ret.val = TRUE
    /\ Len(Header_tags(item.header).tags) = MaxTags

(***************************************************************************)
(* Properties of bundles (SpecBundle)                                      *)
(***************************************************************************)
\* C3: for every bundle B, duplicate ids permitted, Bundle.frombytes(B.tobytes())
\* has as many items as B, in the same order, each with the same id and
\* the same payload as in B.
C3_BundleRoundTrip ==
    (/\ ret.op = "bundle.frombytes"
     /\ bwire = Some(Bundle_tobytes(bundle).bytes))
    => /\ ret.exc = ""
       /\ bparsed # None
       /\ Len(bparsed[1]) = Len(bundle)
       /\ \A i \in 1..Len(bundle) :
             /\ Header_id(bparsed[1][i].header) = Header_id(bundle[i].header)
             /\ bparsed[1][i].data = bundle[i].data

\* the sum of the lengths of the pairs before position k
LengthsBefore(pairs, k) == SumRange([i \in 1..Len(pairs) |-> pairs[i][1]], 1, k - 1)

\* C4: for every bundle B, len(B.tobytes()) is B.header.get_len_bytes() plus
\* the sum of the lengths recorded in B.header.length_id_pairs, and the
\* recorded count is the number of data items of B.
C4_BundleSize ==
    (bwire # None /\ bwire = Some(Bundle_tobytes(bundle).bytes)) =>
        LET pairs == Bundle_header(bundle)
        IN /\ Len(bwire[1]) = BundleHeader_get_len_bytes(pairs)
                               + LengthsBefore(pairs, Len(pairs) + 1)
           /\ BundleHeader_get_count(pairs) = Len(bundle)

\* C5 as stated: for a header with n pairs and every position k, duplicate
\* ids permitted, get_offset(id_k) = 32 + 64*n + the sum of length_i for
\* i < k, and get_range(id_k) is that offset and that offset plus length_k.
C5_OffsetOfEveryPosition ==
    (ret.op \in {"get_offset", "get_range"} /\ bheader # None) =>
        LET pairs == bheader[1]
            k == ret.val[1]
            offset == 32 + 64 * Len(pairs) + LengthsBefore(pairs, k)
        IN /\ ret.op = "get_offset" => ret.val[2] = offset
           /\ ret.op = "get_range" => ret.val[2] = <<offset, offset + pairs[k][1]>>

\* the first position of the pairs that carries the id of position k
FirstWithId(pairs, k) ==
    CHOOSE f \in 1..k : /\ pairs[f][2] = pairs[k][2]
                        /\ \A i \in 1..(f - 1) : pairs[i][2] # pairs[k][2]

\* C5 amended: get_offset(id_k) = 32 + 64*n + the sum of length_i for i < f,
\* where f is the first position whose id is id_k (f = k when no earlier pair
\* carries that id), and get_range(id_k) is that offset and that offset plus
\* length_f.
C5_OffsetOfFirstPosition ==
    (ret.op \in {"get_offset", "get_range"} /\ bheader # None) =>
        LET pairs == bheader[1]
            f == FirstWithId(pairs, ret.val[1])
            offset == 32 + 64 * Len(pairs) + LengthsBefore(pairs, f)
        IN /\ ret.op = "get_offset" => ret.val[2] = offset
           /\ ret.op = "get_range" => ret.val[2] = <<offset, offset + pairs[f][1]>>

\* get_range was asked for the last of MaxItems pairs, a pair with an id of its own
C5_Witness ==
    /\ ret.op = "get_range"
    /\ bheader # None
    /\ Len(bheader[1]) = MaxItems
    /\ ret.val[1] = MaxItems
    /\ FirstWithId(bheader[1], MaxItems) = MaxItems
    /\ \E i \in 1..(MaxItems - 1) : FirstWithId(bheader[1], i) # i

(***************************************************************************)
(* Properties of the tag codec (SpecTags)                                  *)
(***************************************************************************)
\* C11: for every list of tags, the empty one included, which encodes to
\* the single byte 0x00, tagsfromstream(tagstobytes(tags)) returns the same
\* tags in the same order and stops at the end of the encoding.
C11_TagRoundTrip ==
    /\ encoded # None /\ taglist = <<>> => encoded[1] = <<0>>
    /\ decoded # None =>
          /\ decoded[1].exc = ""
          /\ decoded[1].tags = taglist
          /\ decoded[1].pos = Len(encoded[1])

\* a list of two tags, one with an empty name and one with a 64-byte value,
\* was encoded and read back
C11_Witness ==
    /\ decoded # None
    /\ Len(taglist) = 2
    /\ Len(taglist[1].name) = 0
    /\ Len(taglist[2].value) = 64

(***************************************************************************)
(* The signing input of a data item (SpecCodec)                            *)
(***************************************************************************)
\* the data items at hand: the item, and the one frombytes or fromjson returned
ItemsAtHand == {item} \cup (IF parsed # None THEN {parsed[1]} ELSE {})

\* b"dataitem" and b"1"
DataItemLabel == <<Blob(<<100, 97, 116, 97, 105, 116, 101, 109>>), Blob(<<49>>)>>

\* ascii(sig_type)
SigTypeElement(d) == Blob(AsciiDigits(d.header.signer))

\* raw_owner, raw_target, raw_anchor
OwnerTargetAnchor(d) ==
    <<Blob(d.header.raw_owner),
      Blob(IF d.header.target = None THEN <<>> ELSE b64dec(d.header.target[1])),
      Blob(IF d.header.anchor = None THEN <<>> ELSE b64dec(d.header.anchor[1]))>>

\* the list of [name, value] byte pairs of the tags of d
PairsElement(d) ==
    List([i \in 1..Len(tagsfromstream(d.header.raw_tags).tags) |->
            List(<<Blob(tagsfromstream(d.header.raw_tags).tags[i].name),
                   Blob(tagsfromstream(d.header.raw_tags).tags[i].value)>>)])

\* the signing input of version 2
SigningInputV2(d) ==
    deep_hash(List(DataItemLabel \o <<SigTypeElement(d)>> \o OwnerTargetAnchor(d)
                   \o <<Blob(d.header.raw_tags), Blob(d.data)>>))

\* C12 as stated: for version 2 the signing input is deep_hash of the
\* 8-element list ["dataitem", "1", ascii(sig_type), raw_owner, raw_target,
\* raw_anchor, raw_tags, data]; for version 1 it is deep_hash of the same list
\* with raw_tags replaced by the list of [name, value] pairs, ascii(sig_type)
\* included.
C12_SigningInputWithType ==
    \A d \in ItemsAtHand :
        tagsfromstream(d.header.raw_tags).exc = "" =>
            DataItem_get_raw_signature_data(d) =
                [exc |-> "",
                 val |-> IF d.version >= 2 THEN SigningInputV2(d)
                         ELSE deep_hash(List(DataItemLabel \o <<SigTypeElement(d)>>
                                             \o OwnerTargetAnchor(d)
                                             \o <<PairsElement(d), Blob(d.data)>>))]

\* C12 amended: for version 2 the signing input is deep_hash of the 8-element
\* list; for version 1 it is deep_hash of the 7-element list ["dataitem",
\* "1", raw_owner, raw_target, raw_anchor, [[name, value], ...], data], which
\* has no ascii(sig_type).
C12_SigningInput ==
    \A d \in ItemsAtHand :
        tagsfromstream(d.header.raw_tags).exc = "" =>
            DataItem_get_raw_signature_data(d) =
                [exc |-> "",
                 val |-> IF d.version >= 2 THEN SigningInputV2(d)
                         ELSE deep_hash(List(DataItemLabel \o OwnerTargetAnchor(d)
                                             \o <<PairsElement(d), Blob(d.data)>>))]

\* an item of version 1 with a target, an anchor, tags and a payload is at
\* hand beside the item of version 2 it was made from
C12_Witness ==
    /\ parsed # None
    /\ parsed[1].version = 1
    /\ item.version = 2
    /\ parsed[1].header.target # None
    /\ parsed[1].header.anchor # None
    /\ parsed[1].data # <<>>

\* an item of version 1 with two tags is at hand
C12_WitnessTags ==
    /\ parsed # None
    /\ parsed[1].version = 1
    /\ Len(tagsfromstream(parsed[1].header.raw_tags).tags) = 2

(***************************************************************************)
(* Properties of parsing a header (SpecParse)                              *)
(***************************************************************************)
\* the signature type a serialized header declares
WireType(w) == FromLittle(Take(w, 2))

\* the position of the target flag in a serialized header of a known type
TargetFlagPos(w) == 2 + signature_length(WireType(w)) + owner_length(WireType(w)) + 1

\* the position of the anchor flag, given a target flag of 0 or 1
AnchorFlagPos(w) == TargetFlagPos(w) + (IF w[TargetFlagPos(w)] = 1 THEN 32 ELSE 0) + 1

\* the header declares a signature type other than 1, 2, 3, 4, or carries a
\* target flag or an anchor flag that is neither 0 nor 1
MalformedWire(w) ==
    \/ WireType(w) \notin {1, 2, 3, 4}
    \/ /\ WireType(w) \in {1, 2, 3, 4}
       /\ Len(w) >= TargetFlagPos(w)
       /\ \/ w[TargetFlagPos(w)] \notin {0, 1}
          \/ /\ Len(w) >= AnchorFlagPos(w)
             /\ w[AnchorFlagPos(w)] \notin {0, 1}

\* C13: if the signature type is not one of 1, 2, 3, 4 (5 to 7 included), or
\* the target flag or the anchor flag is neither 0 nor 1, the parse raises
\* and no header is returned.
C13_MalformedRejected ==
    (ret.op = "frombytes" /\ MalformedWire(wire[1])) => (ret.exc # "" /\ parsed = None)

\* headers with the reserved type 7, with a target flag of 2 and with an
\* anchor flag of 2 after a target were parsed
C13_Witness ==
    /\ ret.op = "frombytes"
    /\ ret.exc = "Exception: unknown anchor flag value"
    /\ item.header.target # None
    /\ wire[1][AnchorFlagPos(wire[1])] = 2

\* a header of the reserved type 7 was parsed
C13_WitnessType ==
    /\ ret.op = "frombytes"
    /\ ret.exc = "Exception: unknown signature type"
    /\ WireType(wire[1]) = 7

\* a header with a target flag of 2 was parsed
C13_WitnessTarget ==
    /\ ret.op = "frombytes"
    /\ ret.exc = "Exception: unknown target flag value"
    /\ wire[1][TargetFlagPos(wire[1])] = 2

\* the tags count a serialized header declares, read where the parsed header
\* h has it
DeclaredTagsCount(w, h) ==
    FromLittle(SubSeq(w, Header_get_len_bytes(h) - Len(h.raw_tags) - 15,
                      Header_get_len_bytes(h) - Len(h.raw_tags) - 8))

\* C14: when the number of tags decoded from raw_tags differs from the
\* declared tags_count, fromstream raises; every header it returns has a
\* decoded tag count equal to its declared tags_count.
C14_TagCountAgrees ==
    (ret.op = "frombytes" /\ ret.exc = "" /\ parsed # None) =>
        /\ tagsfromstream(parsed[1].header.raw_tags).exc = ""
        /\ Len(tagsfromstream(parsed[1].header.raw_tags).tags)
             = DeclaredTagsCount(wire[1], parsed[1].header)

\* the tags of the returned header are followed by residual bytes
HasCruft(h) ==
    /\ tagsfromstream(h.raw_tags).exc = ""
    /\ tagsfromstream(h.raw_tags).pos < Len(h.raw_tags)

\* C14 for the headers that fromstream returns with a non-empty raw_tags
\* that its tags fill to the end
C14_TagCountAgreesWithoutCruft ==
    (/\ ret.op = "frombytes" /\ ret.exc = "" /\ parsed # None
     /\ parsed[1].header.raw_tags # <<>>
     /\ ~HasCruft(parsed[1].header)) =>
        /\ tagsfromstream(parsed[1].header.raw_tags).exc = ""
        /\ Len(tagsfromstream(parsed[1].header.raw_tags).tags)
             = DeclaredTagsCount(wire[1], parsed[1].header)

(***************************************************************************)
(* Properties of reading a bundle from a stream (SpecStream)               *)
(***************************************************************************)
\* C15: for every declared length_i (also one smaller than the length of the
\* parsed header), parsing item i succeeds and advances the stream by
\* exactly length_i bytes, so item k starts at 32 + 64*n + the sum of
\* length_i for i < k.
C15_ExactLengthRead ==
    ret.op = "item.fromstream" =>
        /\ ret.exc = ""
        /\ ret.val[2] = 32 + 64 * Len(bheader[1]) + LengthsBefore(bheader[1], ret.val[1])
        /\ ret.val[3] - ret.val[2] = bheader[1][ret.val[1]][1]

\* every length the index declares is at least the length of the header of
\* its item
NoShortLength ==
    \A i \in 1..Len(bundle) :
        bheader[1][i][1] >= Header_get_len_bytes(bundle[i].header)

\* C15 for an index whose lengths are not smaller than the headers
C15_ExactLengthReadOfFullLengths ==
    (ret.op = "item.fromstream" /\ NoShortLength) =>
        /\ ret.exc = ""
        /\ ret.val[2] = 32 + 64 * Len(bheader[1]) + LengthsBefore(bheader[1], ret.val[1])
        /\ ret.val[3] - ret.val[2] = bheader[1][ret.val[1]][1]

C17_BlockJsonRoundTrip ==
    /\ []((ret.op = "parsed.tojson" /\ blockparsed[1].from = "json")
             => ret.val[1] = blockjson[1])
    /\ [][blockjson' = blockjson]_vars

\* the JSON of a block of two transactions went through fromjson and tojson
C17_Witness ==
    /\ ret.op = "parsed.tojson"
    /\ blockparsed[1].from = "json"
    /\ Len(blockjson[1].txs) = 2
    /\ blockjson[1].poa.tx_path # blockjson[1].poa.data_path
    /\ blockparsed[1].b.prev_block = blockjson[1].previous_block
    /\ blockparsed[1].b.poa_option = PyInt(1)

\* the ids of the transactions of b, as blobs
TxIdBlobs(b) ==
    List([i \in 1..Len(b.txs) |->
            Blob(b64dec(IF b.txs[i].k = "Transaction" THEN b.txs[i].id.v ELSE b.txs[i].v))])

\* the base list from FORK_2_4 on
BaseList_2_4(b) ==
    List(<<AsciiOf(b.height), Blob(b64dec(b.prev_block)), Blob(b64dec(b.tx_root)),
           TxIdBlobs(b), AsciiOf(b.block_size), AsciiOf(b.weave_size),
           Blob(b64dec(b.reward_addr)),
           List([i \in 1..Len(b.tags) |-> Blob(b.tags[i])])>>)

\* the digest of the outer list around the digest of a base list
SegmentOf(b, base) ==
    deep_hash(List(<<Blob(deep_hash(base)), AsciiOf(b.timestamp), AsciiOf(b.last_retarget),
                     AsciiOf(b.diff), AsciiOf(b.cumulative_diff), AsciiOf(b.reward_pool),
                     Blob(b64dec(b.wallet_list)), Blob(b64dec(b.hash_list_merkle))>>))

\* C18: at any height _get_data_segment returns a digest; from FORK_2_4 and
\* below FORK_2_5 it is the digest of the 8-element base list in the outer
\* list
C18_ForkGatedSegment ==
    ret.op = "data_segment" =>
        /\ ret.exc = ""
        /\ (block.height.v >= FORK_2_4 /\ block.height.v < FORK_2_5)
              => ret.val = SegmentOf(block, BaseList_2_4(block))

\* C18, what the code does: the call raises AttributeError at every height
C18_AlwaysRaises == ret.op = "data_segment" => ret.exc = "AttributeError"

(***************************************************************************)
(* Properties of the wallet (SpecWallet)                                   *)
(***************************************************************************)
\* C19: get_last_transaction_id returns the anchor the peer served for this
\* call, and wallet.last_tx is the value the most recent call returned
C19_LastTxIsLastReturned ==
    ret.op = "get_last_transaction_id" =>
        /\ ret.val = Some(peer.served[Len(peer.served)])
        /\ wallet.last_tx = ret.val

\* two calls were served different anchors and the peer has moved on since
C19_Witness ==
    /\ Len(peer.served) >= 2
    /\ peer.served[1] # peer.served[2]
    /\ wallet.last_tx # Some(peer.anchor)

(***************************************************************************)
(* Properties of the uploader (SpecUploader)                               *)
(***************************************************************************)
\* the last call sent a chunk and the peer answered it with a fatal error
FatalChunkAnswer ==
    /\ ret.op = "upload_chunk"
    /\ ret.val.sent > 0
    /\ requests[Len(requests)].url = "chunk"
    /\ requests[Len(requests)].status # 200
    /\ requests[Len(requests)].text \in FATAL_CHUNK_UPLOAD_ERRORS

\* C20: a chunk POST answered with a fatal error makes upload_chunk raise
\* TransactionUploaderException and record the status and the error
C20_FatalChunkErrorRaises ==
    FatalChunkAnswer =>
        /\ ret.exc = "TransactionUploaderException"
        /\ uploader.last_response_status = requests[Len(requests)].status
        /\ uploader.last_response_error = ArgStr(requests[Len(requests)].text)

\* C20, what the code does: the call returns status -1 with the text and
\* records neither the status nor the error
C20_FatalChunkErrorReturned ==
    FatalChunkAnswer =>
        /\ ret.exc = ""
        /\ ret.val.out.k = "status"
        /\ ret.val.out.v = -1
        /\ uploader.last_response_status # requests[Len(requests)].status
        /\ uploader.last_response_error = ArgStr("")

(***************************************************************************)
(* Properties of residual bytes after the tags (SpecResidual)              *)
(***************************************************************************)
\* C21: a header parsed by fromstream has the raw_tags it was serialized
\* with, residual bytes included; while nothing was assigned to it tobytes
\* gives the bytes it was parsed from; and header.tags = T makes raw_tags
\* tagstobytes(T) followed by the extra_tags_data of before
C21_ResidualBytesKept ==
    /\ (ret.op = "frombytes") =>
          /\ ret.exc = ""
          /\ parsed[1].header.raw_tags = item.header.raw_tags
    /\ (ret.op = "parsed.tobytes" /\ parsed[1].header.raw_tags = item.header.raw_tags) =>
          /\ ret.exc = ""
          /\ ret.val = wire[1]
    /\ (ret.op = "parsed.set_tags" /\ Header_extra_tags_data(ret.val.before).exc = "") =>
          /\ ret.exc = ""
          /\ parsed[1].header.raw_tags
               = tagstobytes(ret.val.value) \o Header_extra_tags_data(ret.val.before).val

\* a tag was assigned to a header that had a tag and residual bytes
C21_Witness ==
    /\ ret.op = "parsed.set_tags"
    /\ ret.val.value # <<>>
    /\ Header_extra_tags_data(ret.val.before).exc = ""
    /\ Header_extra_tags_data(ret.val.before).val = <<0, 9>>
    /\ Header_tags(ret.val.before).tags # <<>>

\* a parsed header with residual bytes was serialized again
C21_WitnessReemit ==
    /\ ret.op = "parsed.tobytes"
    /\ parsed[1].header.raw_tags = item.header.raw_tags
    /\ HasCruft(parsed[1].header)

\* an assignment of X to extra_tags_data kept the tags, made the residual
\* bytes X and left the other fields alone
ExtraAssignedAsClaimed ==
    /\ ret.exc = ""
    /\ Header_tags(parsed[1].header).exc = ""
    /\ Header_tags(parsed[1].header).tags = Header_tags(ret.val.before).tags
    /\ Header_extra_tags_data(parsed[1].header).val = ret.val.value
    /\ parsed[1].header.raw_tags
         = tagstobytes(Header_tags(ret.val.before).tags) \o ret.val.value
    /\ parsed[1].header.raw_owner = ret.val.before.raw_owner
    /\ parsed[1].header.raw_signature = ret.val.before.raw_signature
    /\ parsed[1].header.target = ret.val.before.target
    /\ parsed[1].header.anchor = ret.val.before.anchor

\* C26: header.extra_tags_data = X on any header whose tags decode, also
\* one that carries residual bytes, keeps the tags and makes the residual
\* bytes X
C26_ExtraAssigned ==
    (ret.op = "parsed.set_extra" /\ Header_extra_tags_data(ret.val.before).exc = "")
        => ExtraAssignedAsClaimed

\* C26 for the headers that carry no residual bytes before the assignment
C26_ExtraAssignedToBareTags ==
    (/\ ret.op = "parsed.set_extra"
     /\ Header_extra_tags_data(ret.val.before).exc = ""
     /\ Header_extra_tags_data(ret.val.before).val = <<>>)
        => ExtraAssignedAsClaimed

(***************************************************************************)
(* Properties of the calls of upload_chunk (SpecUploader)                  *)
(***************************************************************************)
\* a POST of /tx in the log was answered with an error
TransactionPostFailed ==
    \E j \in 1..Len(requests) :
       requests[j].url = "tx" /\ ~(200 <= requests[j].status /\ requests[j].status < 300)

\* the step is a call that raises "Unable to complete upload" without a
\* request and without sleeping, and leaves chunk_index, tx_posted and
\* last_response_error as they were, the upload incomplete
RaisesUnableToComplete ==
    /\ ret'.exc = "TransactionUploaderException"
    /\ ret'.val.out = [k |-> "message", v |-> "Unable to complete upload"]
    /\ ret'.val.sent = 0
    /\ ~ret'.val.slept
    /\ requests' = requests
    /\ uploader'.total_errors > 0
    /\ uploader'.chunk_index = uploader.chunk_index
    /\ uploader'.tx_posted = uploader.tx_posted
    /\ uploader'.last_response_error = uploader.last_response_error
    /\ ~is_complete(uploader')

\* C22: upload_chunk raises TransactionUploaderException on every call made
\* while last_response_error is not empty, before any request and without
\* sleeping, and once a POST of the transaction has failed every later call
\* raises so, chunk_index and tx_posted never change and is_complete never
\* becomes true
C22_RaisesAfterFailedPost ==
    [][/\ uploader.last_response_error # ArgStr("") => RaisesUnableToComplete
       /\ TransactionPostFailed => RaisesUnableToComplete]_vars

\* C22, what the code does: every call made while last_response_error is
\* not empty raises so
C22_RaisesWhileErrorRecorded ==
    [][uploader.last_response_error # ArgStr("") => RaisesUnableToComplete]_vars

\* C22: a POST of the transaction has failed with an empty body and a later
\* call has sent a request
C22_RetriedAfterFailedPost ==
    /\ ret.op = "upload_chunk"
    /\ ret.val.sent > 0
    /\ \E j \in 1..(Len(requests) - ret.val.sent) :
          /\ requests[j].url = "tx"
          /\ ~(200 <= requests[j].status /\ requests[j].status < 300)
          /\ requests[j].text = ""

\* request j of the log is a POST of /tx answered with a 2xx status
PostedTransaction(j) ==
    /\ requests[j].url = "tx"
    /\ 200 <= requests[j].status /\ requests[j].status < 300

\* the log of the requests is in order: a POST of /chunk comes after a
\* successful POST of /tx, there is one successful POST of /tx at most, and
\* a POST of chunk k + 1 comes after a POST of chunk k answered 200
RequestsInOrder ==
    /\ \A i \in 1..Len(requests) :
          requests[i].url = "chunk" => \E j \in 1..(i - 1) : PostedTransaction(j)
    /\ \A i, j \in 1..Len(requests) :
          PostedTransaction(i) /\ PostedTransaction(j) => i = j
    /\ \A i \in 1..Len(requests) :
          requests[i].url = "chunk" /\ requests[i].index > 0 =>
             \E j \in 1..(i - 1) : /\ requests[j].url = "chunk"
                                   /\ requests[j].index = requests[i].index - 1
                                   /\ requests[j].status = 200
    /\ \A i, j \in 1..Len(requests) :
          i < j /\ requests[i].url = "chunk" /\ requests[j].url = "chunk" =>
             requests[i].index <= requests[j].index

\* C23: in every sequence of upload_chunk calls on an uploader created with
\* tx_posted = False no chunk is POSTed before the transaction was POSTed
\* with a 2xx answer, the transaction is POSTed successfully once at most
\* (tx_posted goes from False to True and never back, and is True exactly
\* when the log holds the successful POST), and the chunks are POSTed in the
\* order of their indices, chunk k + 1 only after chunk k was answered 200
C23_UploadOrdering ==
    [][/\ RequestsInOrder'
       /\ uploader.tx_posted => uploader'.tx_posted
       /\ uploader'.tx_posted <=> \E j \in 1..Len(requests') : PostedTransaction(j)']_vars

\* C23: the transaction was posted after a failed POST, chunk 0 was refused
\* once and chunk 1 has been sent
C23_Witness ==
    /\ Len(requests) >= 4
    /\ ~PostedTransaction(1)
    /\ \E i \in 1..Len(requests) : requests[i].url = "chunk" /\ requests[i].status # 200
    /\ requests[Len(requests)].url = "chunk"
    /\ requests[Len(requests)].index = 1
    /\ RequestsInOrder

\* the step is a call whose POST of /chunk was refused
ChunkPostFailed ==
    /\ ret'.val.sent > 0
    /\ requests'[Len(requests')].url = "chunk"
    /\ requests'[Len(requests')].status # 200

\* the step is a call that raises "Upload is already complete", sends
\* nothing and changes nothing
RaisesAlreadyComplete ==
    /\ ret'.exc = "TransactionUploaderException"
    /\ ret'.val.out = [k |-> "message", v |-> "Upload is already complete"]
    /\ ret'.val.sent = 0
    /\ requests' = requests
    /\ uploader' = uploader

\* C24: over any sequence of upload_chunk calls chunk_index never decreases
\* and stays within 0..total_chunks; a refused POST of a chunk leaves
\* chunk_index as it was, and tx_posted too (True, as the transaction's own
\* POST left it when the same call made it); once is_complete is true it
\* stays true and every call raises "Upload is already complete" without a
\* request and without a change of state
C24_UploaderProgress ==
    [][/\ uploader'.chunk_index >= uploader.chunk_index
       /\ 0 <= uploader'.chunk_index
       /\ uploader'.chunk_index <= total_chunks(uploader')
       /\ ChunkPostFailed =>
             /\ uploader'.chunk_index = uploader.chunk_index
             /\ uploader'.tx_posted
             /\ ret'.val.sent = 1 => uploader'.tx_posted = uploader.tx_posted
       /\ is_complete(uploader) => is_complete(uploader') /\ RaisesAlreadyComplete]_vars

\* C24: an upload of two chunks, one POST of a chunk refused on the way, is
\* complete and a further call has raised
C24_Witness ==
    /\ is_complete(uploader)
    /\ uploader.chunk_index = 2
    /\ ret.exc = "TransactionUploaderException"
    /\ ret.val.out = [k |-> "message", v |-> "Upload is already complete"]
    /\ \E i \in 1..Len(requests) : requests[i].url = "chunk" /\ requests[i].status # 200

(***************************************************************************)
(* Properties of a resumed upload (SpecResume)                             *)
(***************************************************************************)
\* the step is the first upload_chunk call of an uploader just loaded from
\* the text of an incomplete uploader with no recorded error
FirstCallResumed ==
    /\ ret.op = "load_from_json"
    /\ ret.val.u.last_response_error = ArgStr("")
    /\ ~is_complete(ret.val.u)
    /\ ret'.op = "upload_chunk"

\* C25: load_from_json(u.to_json()) restores chunk_index, tx_posted,
\* last_response_status and last_response_error to their values in u, and
\* the first upload_chunk call of the resumed upload does not raise for an
\* error when u had recorded none
C25_StateRoundTrip ==
    [][/\ ret'.op = "load_from_json" =>
             /\ uploader'.chunk_index = uploader.chunk_index
             /\ uploader'.tx_posted = uploader.tx_posted
             /\ uploader'.last_response_status = uploader.last_response_status
             /\ uploader'.last_response_error = uploader.last_response_error
       /\ FirstCallResumed =>
             ret'.val.out # [k |-> "message", v |-> "Unable to complete upload"]]_vars

\* C25, what the code does: chunk_index, tx_posted and last_response_status
\* come back, last_response_error comes back as the bool tx_posted, and
\* the first upload_chunk call of the resumed upload raises for an error
C25_ErrorNotRestored ==
    [][/\ ret'.op = "load_from_json" =>
             /\ uploader'.chunk_index = uploader.chunk_index
             /\ uploader'.tx_posted = uploader.tx_posted
             /\ uploader'.last_response_status = uploader.last_response_status
             /\ uploader'.last_response_error = PyBool(uploader.tx_posted)
       /\ FirstCallResumed => RaisesUnableToComplete]_vars

\* C25: an uploader with a chunk sent and no recorded error was saved and
\* loaded, and the first call of the resumed upload has raised
C25_ResumedRaised ==
    /\ ret.op = "upload_chunk"
    /\ ret.exc = "TransactionUploaderException"
    /\ uploader.last_response_error = PyBool(TRUE)
    /\ uploader.total_errors = 1
    /\ uploader.chunk_index = 1
    /\ ~TransactionPostFailed
====
